---- MODULE Spec2Model ----
(***************************************************************************)
(* BlyFast native decoding engine: the header handle registry              *)
(* (http_headers.c, utils.c), the JSON class/method cache and the JSON     *)
(* value parser (json_parser.c, blyfastnative.c).                          *)
(*                                                                         *)
(* A buffer is a sequence of bytes and a C pointer into it is a 1-based     *)
(* index, with end = Len(buffer) + 1.  Header bytes are one-character      *)
(* strings; JSON bytes are char codes, as the parser does arithmetic on    *)
(* them.                                                                   *)
(***************************************************************************)
EXTENDS Integers, Sequences, FiniteSets, TLC

VARIABLES
    headers_storage,    \* utils.c: ParsedHeaders* headers_storage[MAX_HEADERS]
    next_header_id,     \* utils.c: volatile int next_header_id
    free_header_slots,  \* utils.c: int free_header_slots[MAX_HEADERS]
    free_header_count,  \* utils.c: int free_header_count
    headers_mutex,      \* utils.c: pthread_mutex_t headers_mutex (0 = unlocked, else owner)
    heap,               \* the malloc'ed ParsedHeaders objects
    th,                 \* per thread: the registry call in progress and its locals
    issued,             \* history: handles a register call has returned and nobody released since
    released,           \* history: handles released and not reissued, oldest first
    last,               \* history: what the most recent registry step did and returned
    jsonCache,          \* json_parser.c: the cached* statics and jniCacheInitialized
    jt,                 \* per thread: the JSON parse in progress and what the last one returned
    json,               \* one nativeParseJson call: its input and what it returned
    body                \* one body decoder call: the function, its input and what it returned

regVars == <<headers_storage, next_header_id, free_header_slots, free_header_count,
             headers_mutex, heap, th, issued, released, last>>

jsonVars == <<jsonCache, jt, json>>

vars == <<regVars, jsonVars, body>>

-----------------------------------------------------------------------------
(* Bounds of the model *)

\* blyfastnative.h:14 sets MAX_HEADERS to 1000; the model runs the same code
\* on a table of this many slots (slot 0 unused, handles 1..MAX_HEADERS-1).
MAX_HEADERS == 3

\* Number of ParsedHeaders objects malloc hands out in one run.
MaxObjs == 3

\* Number of tokens in a JSON input.
MaxToks == 4

\* Number of fragments in the body of a JSON string input.
MaxFrags == 4

\* Number of tokens in a JSON number input.
MaxNumToks == 5

\* Number of tokens in a form body.
MaxFormToks == 4

\* Number of bytes in a raw key or value span.
MaxSpanLen == 4

\* Number of lines in a header block of the single-caller specification.
MaxHeaderLines == 2

\* form_parser.c:15: the result buffer is malloc(length * 3)
FormResultFactor == 3

\* form_parser.c:127: char boundary[256]
BoundarySize == 256

\* form_parser.c:145: k - j > 200
BoundaryLookahead == 200

\* form_parser.c:282, 299: nameLen < 1024, filenameLen < 1024
PartNameLimit == 1024

\* form_parser.c:316: valueLen < 256
ContentTypeLimit == 256

\* form_parser.c:117: #define MAX_PARTS 100
MAX_PARTS == 100

MAX_HEADER_NAME_LEN == 1024

MAX_JSON_NUMBER_LEN == 64

-----------------------------------------------------------------------------
(* Values *)

\* Two threads call into the registry.
Threads == {1, 2}
Slots == 0..(MAX_HEADERS - 1)
Objs == 1..MaxObjs

NULL == 0
\* jstring NULL, as returned by nativeGetHeader
NULLSTR == <<"NULL">>
\* what a read of freed memory may yield besides the old contents
GARBAGE == -1

\* Header blocks handed to nativeParseHttpHeaders.
HeaderBlocks ==
    { <<>>,
      <<"a", ":", "1", "\r", "\n", "B", ":", " ", "2">> }

\* Header names handed to nativeGetHeader.
LookupNames == { <<"b">> }

\* Handles handed to nativeGetHeader / nativeFreeHeaders, valid or not.
HandleArgs == 0..MAX_HEADERS

-----------------------------------------------------------------------------
(* The header block parser: one iteration of the line loop *)

IsSpaceTab(c) == c = " " \/ c = "\t"

\* http_headers.c:65-68: first index at or after pos holding CR or LF, else end
RECURSIVE FindLineEnd(_, _)
FindLineEnd(buf, p) ==
    IF p <= Len(buf) /\ buf[p] # "\r" /\ buf[p] # "\n"
    THEN FindLineEnd(buf, p + 1)
    ELSE p

\* http_headers.c:142-143: step over CR and then LF when present
SkipCRLF(buf, le) ==
    LET a == IF le <= Len(buf) /\ buf[le] = "\r" THEN le + 1 ELSE le
    IN  IF a <= Len(buf) /\ buf[a] = "\n" THEN a + 1 ELSE a

\* http_headers.c:81-84: first colon of the line, else line_end
RECURSIVE FindColon(_, _, _)
FindColon(buf, p, le) ==
    IF p < le /\ buf[p] # ":" THEN FindColon(buf, p + 1, le) ELSE p

\* http_headers.c:99-106: name length with trailing spaces and tabs dropped, capped
RECURSIVE TrimNameLen(_, _, _)
TrimNameLen(buf, ls, n) ==
    IF n > 0 /\ IsSpaceTab(buf[ls + n - 1]) THEN TrimNameLen(buf, ls, n - 1) ELSE n

HeaderName(buf, ls, colon) ==
    LET n == TrimNameLen(buf, ls, colon - ls)
        m == IF n > MAX_HEADER_NAME_LEN THEN MAX_HEADER_NAME_LEN ELSE n
    IN  SubSeq(buf, ls, ls + m - 1)

\* http_headers.c:118-121: first index after the colon that is no space or tab
RECURSIVE SkipLeadingWs(_, _, _)
SkipLeadingWs(buf, p, le) ==
    IF p < le /\ IsSpaceTab(buf[p]) THEN SkipLeadingWs(buf, p + 1, le) ELSE p

\* http_headers.c:118-123 as the value started right behind the colon
HeaderValueFromColon(buf, colon, le) == SubSeq(buf, colon + 1, le - 1)

\* http_headers.c:118-133: the value runs from there to line_end
HeaderValueOf(buf, colon, le) ==
    SubSeq(buf, SkipLeadingWs(buf, colon + 1, le), le - 1)

\* http_headers.c:135-138: the new entry becomes the head of the list
AddToList(first, entry) == <<entry>> \o first

\* http_headers.c:63-146, one pass of the while loop starting at pos = line_start:
\* the list after the pass and the new pos
ParseLine(buf, first, p) ==
    LET le == FindLineEnd(buf, p)
        colon == FindColon(buf, p, le)
    IN  IF p = le
        THEN [first |-> first, pos |-> SkipCRLF(buf, le), added |-> FALSE]
        ELSE IF colon < le
        THEN [first |-> AddToList(first, [name |-> HeaderName(buf, p, colon),
                                           value |-> HeaderValueOf(buf, colon, le)]),
              pos |-> SkipCRLF(buf, le), added |-> TRUE]
        ELSE [first |-> first, pos |-> SkipCRLF(buf, le), added |-> FALSE]

\* the whole loop, run without interruption
RECURSIVE ParseAll(_, _, _)
ParseAll(buf, first, p) ==
    IF p <= Len(buf)
    THEN LET r == ParseLine(buf, first, p) IN ParseAll(buf, r.first, r.pos)
    ELSE first

-----------------------------------------------------------------------------
(* nativeGetHeader's scan *)

ToLower(c) ==
    CASE c = "A" -> "a" [] c = "B" -> "b" [] c = "C" -> "c"
      [] c = "D" -> "d" [] c = "T" -> "t"
      [] OTHER -> c

\* strcasecmp(a, b) == 0
StrCaseEq(a, b) ==
    /\ Len(a) = Len(b)
    /\ \A i \in 1..Len(a) : ToLower(a[i]) = ToLower(b[i])

\* http_headers.c:182-193: walk the list from its head, stop at the first match
RECURSIVE FindHeader(_, _)
FindHeader(first, name) ==
    IF first = <<>> THEN NULLSTR
    ELSE IF StrCaseEq(Head(first).name, name) THEN Head(first).value
    ELSE FindHeader(Tail(first), name)

-----------------------------------------------------------------------------
(* The registry's slot allocation *)

\* http_headers.c:41-43: linear scan from 1 for an empty slot
RECURSIVE ScanFreeSlot(_, _)
ScanFreeSlot(storage, i) ==
    IF i < MAX_HEADERS /\ storage[i] # NULL THEN ScanFreeSlot(storage, i + 1) ELSE i

PopFreeSlotStale(slots, count) ==
    [newId |-> slots[count - 1], count |-> count]

PopOldestSlot(slots, count) ==
    [newId |-> slots[0],
     count |-> count - 1]

\* http_headers.c:34: newId = free_header_slots[--free_header_count]
PopFreeSlot(slots, count) ==
    [newId |-> slots[count - 1], count |-> count - 1]

\* http_headers.c:33-50: the handle chosen under the lock;
\* newId = 0 stands for the "no available slots" return
AssignId(storage, nextId, slots, count) ==
    IF count > 0
    THEN LET p == PopFreeSlot(slots, count)
         IN  [newId |-> p.newId, nextId |-> nextId, count |-> p.count, fromFree |-> TRUE]
    ELSE IF nextId >= MAX_HEADERS
    THEN LET s == ScanFreeSlot(storage, 1)
         IN  [newId |-> IF s >= MAX_HEADERS THEN 0 ELSE s,
              nextId |-> nextId + 1, count |-> count, fromFree |-> FALSE]
    ELSE [newId |-> nextId, nextId |-> nextId + 1, count |-> count, fromFree |-> FALSE]

\* http_headers.c:221-223 as the push dropped the released index
PushFreeSlotDropped(slots, count, id) == [slots |-> slots, count |-> count]

\* http_headers.c:221-223: bounded push of the released index
PushFreeSlot(slots, count, id) ==
    IF count < MAX_HEADERS
    THEN [slots |-> [slots EXCEPT ![count] = id], count |-> count + 1]
    ELSE [slots |-> slots, count |-> count]

-----------------------------------------------------------------------------
(* Threads *)

\* A thread is outside the registry ("idle"), in the line loop of
\* nativeParseHttpHeaders ("reg_parse") or past the unlock of nativeFreeHeaders
\* ("rel_free"). The locked regions run as single steps: headers_mutex
\* serialises them, and a step taken with the mutex still held leaves it held.
Idle ==
    [pc |-> "idle", buf |-> <<>>, headers |-> NULL, newId |-> 0, pos |-> 0]

\* The record of a step: the call (kind, handle h, name), the set it touched
\* (obj), what it returned (retId, retStr, outcome), and what held when it ran:
\* the most recently released handle not yet reissued (expectTop, 0 if none),
\* next_header_id before and after, the number of live entries and of occupied
\* slots, whether the handle was issued, whether freed memory was touched.
NoEvent ==
    [kind |-> "none", h |-> 0, name |-> <<>>, obj |-> NULL,
     retId |-> 0, retStr |-> NULLSTR, outcome |-> "none",
     expectTop |-> 0, idBefore |-> 0, idAfter |-> 0,
     liveSeen |-> 0, occSeen |-> 0, wasIssued |-> FALSE, deref |-> FALSE]

FreshObj == [state |-> "unalloc", id |-> 0, first |-> <<>>, src |-> <<>>]

\* free(): the memory keeps no content the program may rely on
FreedObj == [state |-> "freed", id |-> 0, first |-> <<>>, src |-> <<>>]

\* malloc hands out the lowest address not handed out before
NextObj == CHOOSE o \in Objs : heap[o].state = "unalloc" /\
                              \A q \in Objs : heap[q].state = "unalloc" => o <= q

IsLive(o) == o # NULL /\ heap[o].state = "live"

\* occupied slots whose HeaderSet has not been freed
LiveCount == Cardinality({ i \in Slots : IsLive(headers_storage[i]) })

RemoveLast(seq, x) ==
    LET idx == { i \in 1..Len(seq) : seq[i] = x }
    IN  IF idx = {} THEN seq
        ELSE LET k == CHOOSE i \in idx : \A j \in idx : j <= i
             IN  SubSeq(seq, 1, k - 1) \o SubSeq(seq, k + 1, Len(seq))

\* http_headers.c:162, 207: headersId <= 0 || headersId >= MAX_HEADERS is refused
InRange(h) == ~(h <= 0 \/ h >= MAX_HEADERS)

RegInit ==
    /\ headers_storage = [i \in Slots |-> NULL]
    /\ next_header_id = 1
    /\ free_header_slots = [i \in Slots |-> 0]
    /\ free_header_count = 0
    /\ headers_mutex = 0
    /\ heap = [o \in Objs |-> FreshObj]
    /\ th = [t \in Threads |-> Idle]
    /\ issued = {}
    /\ released = <<>>
    /\ last = NoEvent

-----------------------------------------------------------------------------
(* nativeParseHttpHeaders (register) *)

\* http_headers.c:8-16: null or empty input
ParseHttpHeadersReject(t, buf) ==
    /\ th[t].pc = "idle"
    /\ UNCHANGED <<jsonVars, body>>
    /\ Len(buf) <= 0
    /\ last' = [NoEvent EXCEPT !.kind = "register", !.outcome = "reject"]
    /\ UNCHANGED <<headers_storage, next_header_id, free_header_slots,
                   free_header_count, headers_mutex, heap, th, issued, released>>

\* http_headers.c:19-22: malloc of the ParsedHeaders fails
ParseHttpHeadersNoMem(t, buf) ==
    /\ th[t].pc = "idle"
    /\ UNCHANGED <<jsonVars, body>>
    /\ Len(buf) > 0
    /\ last' = [NoEvent EXCEPT !.kind = "register", !.outcome = "nomem"]
    /\ UNCHANGED <<headers_storage, next_header_id, free_header_slots,
                   free_header_count, headers_mutex, heap, th, issued, released>>

\* http_headers.c:19-54: allocate the empty ParsedHeaders, then under the lock
\* choose the handle, publish the set in its slot, and unlock
ParseHttpHeadersAssign(t, buf) ==
    /\ th[t].pc = "idle"
    /\ UNCHANGED <<jsonVars, body>>
    /\ Len(buf) > 0
    /\ \E q \in Objs : heap[q].state = "unalloc"
    /\ headers_mutex = 0
    /\ LET a == AssignId(headers_storage, next_header_id, free_header_slots,
                         free_header_count)
           o == NextObj
           ev == [NoEvent EXCEPT !.obj = o,
                                 !.expectTop = IF released # <<>>
                                               THEN released[Len(released)] ELSE 0,
                                 !.idBefore = next_header_id, !.idAfter = a.nextId,
                                 !.liveSeen = LiveCount,
                                 !.occSeen = Cardinality({ i \in Slots :
                                                 headers_storage[i] # NULL })]
       IN  /\ next_header_id' = a.nextId
           /\ free_header_count' = a.count
           /\ IF a.newId = 0
              THEN \* http_headers.c:44-48: no slot; unlock, free, return 0
                   /\ heap' = [heap EXCEPT ![o] = FreedObj]
                   /\ last' = [ev EXCEPT !.kind = "register", !.outcome = "full"]
                   /\ UNCHANGED <<headers_storage, released, th>>
              ELSE /\ heap' = [heap EXCEPT ![o] = [state |-> "live", id |-> a.newId,
                                                   first |-> <<>>, src |-> buf]]
                   /\ headers_storage' = [headers_storage EXCEPT ![a.newId] = o]
                   /\ th' = [th EXCEPT ![t] = [Idle EXCEPT !.pc = "reg_parse",
                                                          !.buf = buf, !.headers = o,
                                                          !.newId = a.newId, !.pos = 1]]
                   /\ released' = RemoveLast(released, a.newId)
                   /\ last' = [ev EXCEPT !.kind = "assign", !.h = a.newId]
    /\ UNCHANGED <<free_header_slots, headers_mutex, issued>>

\* http_headers.c:63-146: one pass of the line loop, outside the lock.
\* A write into a set that was freed meanwhile is lost.
ParseHttpHeadersLine(t) ==
    /\ th[t].pc = "reg_parse"
    /\ UNCHANGED <<jsonVars, body>>
    /\ th[t].pos <= Len(th[t].buf)
    /\ LET o == th[t].headers
           r == ParseLine(th[t].buf, heap[o].first, th[t].pos)
       IN  /\ heap' = IF IsLive(o) THEN [heap EXCEPT ![o].first = r.first] ELSE heap
           /\ th' = [th EXCEPT ![t].pos = r.pos]
    /\ UNCHANGED <<headers_storage, next_header_id, free_header_slots,
                   free_header_count, headers_mutex, issued, released, last>>

\* http_headers.c:89-131: a malloc for a header line fails; the list and the
\* set are freed and 0 is returned. headers_storage is not touched.
ParseHttpHeadersLineNoMem(t) ==
    /\ th[t].pc = "reg_parse"
    /\ UNCHANGED <<jsonVars, body>>
    /\ th[t].pos <= Len(th[t].buf)
    /\ LET o == th[t].headers
       IN  /\ ParseLine(th[t].buf, heap[o].first, th[t].pos).added
           /\ heap' = [heap EXCEPT ![o] = FreedObj]
           /\ last' = [NoEvent EXCEPT !.kind = "register", !.obj = o,
                                      !.h = th[t].newId, !.outcome = "linenomem",
                                      !.deref = ~IsLive(o)]
    /\ th' = [th EXCEPT ![t] = Idle]
    /\ UNCHANGED <<headers_storage, next_header_id, free_header_slots,
                   free_header_count, headers_mutex, issued, released>>

\* http_headers.c:149: return headers->id. Reading a freed set yields the old
\* value or anything else.
ParseHttpHeadersReturn(t) ==
    /\ th[t].pc = "reg_parse"
    /\ UNCHANGED <<jsonVars, body>>
    /\ th[t].pos > Len(th[t].buf)
    /\ LET o == th[t].headers
       IN  \E id \in IF IsLive(o) THEN {heap[o].id} ELSE {th[t].newId, GARBAGE} :
               /\ last' = [NoEvent EXCEPT !.kind = "register", !.obj = o,
                                          !.h = th[t].newId, !.retId = id,
                                          !.outcome = "ok",
                                          !.deref = ~IsLive(o)]
               /\ issued' = IF InRange(id) THEN issued \cup {id} ELSE issued
    /\ th' = [th EXCEPT ![t] = Idle]
    /\ UNCHANGED <<headers_storage, next_header_id, free_header_slots,
                   free_header_count, headers_mutex, heap, released>>

-----------------------------------------------------------------------------
(* nativeGetHeader (lookup) *)

\* http_headers.c:157-164: handle out of 1..MAX_HEADERS-1
GetHeaderReject(t, h, name) ==
    /\ th[t].pc = "idle"
    /\ UNCHANGED <<jsonVars, body>>
    /\ ~InRange(h)
    /\ last' = [NoEvent EXCEPT !.kind = "lookup", !.outcome = "reject"]
    /\ UNCHANGED <<headers_storage, next_header_id, free_header_slots,
                   free_header_count, headers_mutex, heap, th, issued, released>>

\* http_headers.c:167-172: lock; the slot is empty; unlock and return NULL
GetHeaderEmpty(t, h, name) ==
    /\ th[t].pc = "idle"
    /\ UNCHANGED <<jsonVars, body>>
    /\ InRange(h)
    /\ headers_mutex = 0
    /\ headers_storage[h] = NULL
    /\ last' = [NoEvent EXCEPT !.kind = "lookup", !.h = h, !.name = name,
                               !.outcome = "empty", !.wasIssued = (h \in issued)]
    /\ UNCHANGED <<headers_storage, next_header_id, free_header_slots,
                   free_header_count, headers_mutex, heap, th, issued, released>>

\* http_headers.c:175-179: GetStringUTFChars fails; unlock and return NULL
GetHeaderNameNoMem(t, h, name) ==
    /\ th[t].pc = "idle"
    /\ UNCHANGED <<jsonVars, body>>
    /\ InRange(h)
    /\ headers_mutex = 0
    /\ headers_storage[h] # NULL
    /\ last' = [NoEvent EXCEPT !.kind = "lookup", !.h = h, !.name = name,
                               !.obj = headers_storage[h], !.outcome = "nomem",
                               !.wasIssued = (h \in issued)]
    /\ UNCHANGED <<headers_storage, next_header_id, free_header_slots,
                   free_header_count, headers_mutex, heap, th, issued, released>>

\* http_headers.c:167-198: lock, scan the set found in the slot, unlock, return
\* the value found or NULL. Scanning a freed set yields its old contents or
\* anything else.
GetHeaderScan(t, h, name) ==
    /\ th[t].pc = "idle"
    /\ UNCHANGED <<jsonVars, body>>
    /\ InRange(h)
    /\ headers_mutex = 0
    /\ headers_storage[h] # NULL
    /\ LET o == headers_storage[h]
           v == FindHeader(heap[o].first, name)
       IN  \E r \in IF IsLive(o) THEN {v} ELSE {NULLSTR, <<"?">>} :
               last' = [NoEvent EXCEPT !.kind = "lookup", !.h = h,
                                       !.name = name, !.obj = o, !.retStr = r,
                                       !.outcome = "ok",
                                       !.wasIssued = (h \in issued),
                                       !.deref = ~IsLive(o)]
    /\ UNCHANGED <<headers_storage, next_header_id, free_header_slots,
                   free_header_count, headers_mutex, heap, th, issued, released>>

\* http_headers.c:188-189: a match is found and NewStringUTF raises;
\* CHECK_JNI_EXCEPTION returns NULL from inside the locked region
GetHeaderScanException(t, h, name) ==
    /\ th[t].pc = "idle"
    /\ UNCHANGED <<jsonVars, body>>
    /\ InRange(h)
    /\ headers_mutex = 0
    /\ IsLive(headers_storage[h])
    /\ FindHeader(heap[headers_storage[h]].first, name) # NULLSTR
    /\ headers_mutex' = t
    /\ last' = [NoEvent EXCEPT !.kind = "lookup", !.h = h, !.name = name,
                               !.obj = headers_storage[h], !.outcome = "exception",
                               !.wasIssued = (h \in issued)]
    /\ UNCHANGED <<headers_storage, next_header_id, free_header_slots,
                   free_header_count, heap, th, issued, released>>

-----------------------------------------------------------------------------
(* nativeFreeHeaders (release) *)

\* http_headers.c:207-209
FreeHeadersReject(t, h) ==
    /\ th[t].pc = "idle"
    /\ UNCHANGED <<jsonVars, body>>
    /\ ~InRange(h)
    /\ last' = [NoEvent EXCEPT !.kind = "release", !.outcome = "reject"]
    /\ UNCHANGED <<headers_storage, next_header_id, free_header_slots,
                   free_header_count, headers_mutex, heap, th, issued, released>>

\* http_headers.c:212-217: lock; the slot is empty; unlock and return
FreeHeadersEmpty(t, h) ==
    /\ th[t].pc = "idle"
    /\ UNCHANGED <<jsonVars, body>>
    /\ InRange(h)
    /\ headers_mutex = 0
    /\ headers_storage[h] = NULL
    /\ issued' = issued \ {h}
    /\ last' = [NoEvent EXCEPT !.kind = "release", !.h = h,
                               !.outcome = "empty"]
    /\ UNCHANGED <<headers_storage, next_header_id, free_header_slots,
                   free_header_count, headers_mutex, heap, th, released>>

\* http_headers.c:212-225: lock, clear the slot, push its index, unlock
FreeHeadersClear(t, h) ==
    /\ th[t].pc = "idle"
    /\ UNCHANGED <<jsonVars, body>>
    /\ InRange(h)
    /\ headers_mutex = 0
    /\ headers_storage[h] # NULL
    /\ LET p == PushFreeSlot(free_header_slots, free_header_count, h)
       IN  /\ free_header_slots' = p.slots
           /\ free_header_count' = p.count
    /\ headers_storage' = [headers_storage EXCEPT ![h] = NULL]
    /\ released' = Append(released, h)
    /\ issued' = issued \ {h}
    /\ th' = [th EXCEPT ![t] = [Idle EXCEPT !.pc = "rel_free",
                                           !.headers = headers_storage[h]]]
    /\ last' = [NoEvent EXCEPT !.kind = "clear", !.h = h,
                               !.obj = headers_storage[h]]
    /\ UNCHANGED <<next_header_id, headers_mutex, heap>>

\* http_headers.c:228-231: free the list and the set, outside the lock
FreeHeadersFree(t) ==
    /\ th[t].pc = "rel_free"
    /\ UNCHANGED <<jsonVars, body>>
    /\ LET o == th[t].headers
       IN  /\ heap' = [heap EXCEPT ![o] = FreedObj]
           /\ last' = [NoEvent EXCEPT !.kind = "release", !.obj = o,
                                      !.outcome = "ok", !.deref = ~IsLive(o)]
    /\ th' = [th EXCEPT ![t] = Idle]
    /\ UNCHANGED <<headers_storage, next_header_id, free_header_slots,
                   free_header_count, headers_mutex, issued, released>>

RegNext ==
    \E t \in Threads :
        \/ \E buf \in HeaderBlocks :
              \/ ParseHttpHeadersReject(t, buf)
              \/ ParseHttpHeadersNoMem(t, buf)
              \/ ParseHttpHeadersAssign(t, buf)
        \/ ParseHttpHeadersLine(t)
        \/ ParseHttpHeadersLineNoMem(t)
        \/ ParseHttpHeadersReturn(t)
        \/ \E h \in HandleArgs, name \in LookupNames :
              \/ GetHeaderReject(t, h, name)
              \/ GetHeaderEmpty(t, h, name)
              \/ GetHeaderNameNoMem(t, h, name)
              \/ GetHeaderScan(t, h, name)
              \/ GetHeaderScanException(t, h, name)
        \/ \E h \in HandleArgs :
              \/ FreeHeadersReject(t, h)
              \/ FreeHeadersEmpty(t, h)
              \/ FreeHeadersClear(t, h)
        \/ FreeHeadersFree(t)


-----------------------------------------------------------------------------
(* JSON value parser (json_parser.c), over byte codes *)

\* the character literals of the parser, as C char values
Ch(c) ==
    CASE c = "\t" -> 9   [] c = "\n" -> 10  [] c = "\r" -> 13  [] c = " " -> 32
      [] c = "\"" -> 34  [] c = "%" -> 37   [] c = "&" -> 38   [] c = "+" -> 43   [] c = "," -> 44   [] c = "-" -> 45
      [] c = "." -> 46   [] c = "/" -> 47   [] c = "0" -> 48   [] c = "1" -> 49
      [] c = "2" -> 50   [] c = "4" -> 52   [] c = "8" -> 56   [] c = "9" -> 57   [] c = ":" -> 58
      [] c = "=" -> 61   [] c = "g" -> 103
      [] c = "A" -> 65   [] c = "C" -> 67   [] c = "D" -> 68   [] c = "E" -> 69
      [] c = "F" -> 70   [] c = "[" -> 91   [] c = "\\" -> 92  [] c = "]" -> 93
      [] c = "a" -> 97   [] c = "b" -> 98   [] c = "c" -> 99   [] c = "d" -> 100
      [] c = "e" -> 101  [] c = "f" -> 102  [] c = "l" -> 108  [] c = "n" -> 110
      [] c = "r" -> 114  [] c = "s" -> 115  [] c = "t" -> 116  [] c = "u" -> 117
      [] c = "x" -> 120  [] c = "{" -> 123  [] c = "}" -> 125

Bytes(s) == [i \in DOMAIN s |-> Ch(s[i])]

\* jobject NULL
JNull == [k |-> "NULL"]

\* What a parse function hands back: the jobject v and the cursor cur, and, for
\* the properties, ok (FALSE when v = NULL came from an error return rather than
\* from the literal null), sw (an element, key or member value that failed
\* was put into a container on the way) and oob (a byte at or past end was read).
Res(v, cur, ok, sw, oob) == [v |-> v, cur |-> cur, ok |-> ok, sw |-> sw, oob |-> oob]

Fail(cur, oob) == Res(JNull, cur, FALSE, FALSE, oob)

\* the byte under the cursor; GetStringUTFChars ends the buffer with a NUL
ByteAt(buf, i) == IF i <= Len(buf) THEN buf[i] ELSE 0

IsJsonWs(c) == c = Ch(" ") \/ c = Ch("\t") \/ c = Ch("\n") \/ c = Ch("\r")

IsDigit(c) == c >= Ch("0") /\ c <= Ch("9")

RECURSIVE skipWhitespace(_, _)
skipWhitespace(buf, cur) ==
    IF cur <= Len(buf) /\ IsJsonWs(buf[cur]) THEN skipWhitespace(buf, cur + 1) ELSE cur

\* *cursor + n <= end && strncmp(*cursor, lit, n) == 0
MatchesLiteral(buf, cur, lit) ==
    /\ cur + Len(lit) <= Len(buf) + 1
    /\ \A i \in 1..Len(lit) : buf[cur + i - 1] = lit[i]

\* c - '0', c - 'A' + 10, c - 'a' + 10, else -1
hexCharToInt(c) ==
    IF c >= Ch("0") /\ c <= Ch("9") THEN c - Ch("0")
    ELSE IF c >= Ch("A") /\ c <= Ch("F") THEN c - Ch("A") + 10
    ELSE IF c >= Ch("a") /\ c <= Ch("f") THEN c - Ch("a") + 10
    ELSE -1

\* four hex digits at buf[from..from+3], -1 if one is bad
RECURSIVE HexValue(_, _, _, _)
HexValue(buf, from, n, acc) ==
    IF n = 0 THEN acc
    ELSE LET d == hexCharToInt(ByteAt(buf, from))
         IN  IF d < 0 THEN -1 ELSE HexValue(buf, from + 1, n - 1, acc * 16 + d)

\* UTF-8 of a code point below 0x10000
Utf8Bmp(h) ==
    IF h < 128 THEN <<h>>
    ELSE IF h < 2048 THEN <<192 + (h \div 64), 128 + (h % 64)>>
    ELSE <<224 + (h \div 4096), 128 + ((h \div 64) % 64), 128 + (h % 64)>>

\* the code point of a surrogate pair, as 4 bytes
Utf8Pair(hi, lo) ==
    LET cp == 65536 + ((hi - 55296) * 1024) + (lo - 56320)
    IN  <<240 + (cp \div 262144), 128 + ((cp \div 4096) % 64),
          128 + ((cp \div 64) % 64), 128 + (cp % 64)>>

\* first pass; bad stands for the early return inside the loop
RECURSIVE ScanString(_, _, _)
ScanString(buf, scan, hasEscapes) ==
    IF scan <= Len(buf) /\ buf[scan] # Ch("\"")
    THEN IF buf[scan] = Ch("\\")
         THEN IF scan + 1 > Len(buf)
              THEN [scan |-> scan + 1, hasEscapes |-> TRUE, bad |-> TRUE]
              ELSE ScanString(buf, scan + 2, TRUE)
         ELSE ScanString(buf, scan + 1, hasEscapes)
    ELSE [scan |-> scan, hasEscapes |-> hasEscapes, bad |-> FALSE]

EscapeBad == [out |-> <<>>, step |-> 0, bad |-> TRUE]

\* a low surrogate read after a high one: the 4-byte encoding, cursor += 11
DecodeLowSurrogate(h, lo) ==
    IF lo < 0 THEN EscapeBad
    ELSE IF lo < 56320 \/ lo >= 57344 THEN EscapeBad
    ELSE [out |-> Utf8Pair(h, lo), step |-> 11, bad |-> FALSE]

\* \uXXXX with value h, the cursor on the u
DecodeUnicode(buf, cur, h) ==
    IF h < 0 THEN EscapeBad
    ELSE IF h < 55296 \/ h >= 57344
    THEN [out |-> Utf8Bmp(h), step |-> 4, bad |-> FALSE]
    ELSE IF h < 56320
    THEN IF cur + 9 >= Len(buf) + 1
            \/ buf[cur + 5] # Ch("\\") \/ buf[cur + 6] # Ch("u")
         THEN EscapeBad
         ELSE DecodeLowSurrogate(h, HexValue(buf, cur + 7, 4, 0))
    ELSE EscapeBad

\* the switch on the byte c after a backslash, the cursor on it: out = the
\* bytes appended, step = what the case adds to the cursor before the loop's
\* own cursor++, bad = an error return
DecodeEscape(buf, cur, c) ==
    IF c = Ch("\"") \/ c = Ch("\\") \/ c = Ch("/")
    THEN [out |-> <<c>>, step |-> 0, bad |-> FALSE]
    ELSE IF c = Ch("b") THEN [out |-> <<8>>, step |-> 0, bad |-> FALSE]
    ELSE IF c = Ch("f") THEN [out |-> <<12>>, step |-> 0, bad |-> FALSE]
    ELSE IF c = Ch("n") THEN [out |-> <<10>>, step |-> 0, bad |-> FALSE]
    ELSE IF c = Ch("r") THEN [out |-> <<13>>, step |-> 0, bad |-> FALSE]
    ELSE IF c = Ch("t") THEN [out |-> <<9>>, step |-> 0, bad |-> FALSE]
    ELSE IF c = Ch("u")
    THEN IF cur + 4 >= Len(buf) + 1 THEN EscapeBad
         ELSE DecodeUnicode(buf, cur, HexValue(buf, cur + 1, 4, 0))
    ELSE EscapeBad

RECURSIVE DecodeString(_, _, _)

\* the rest of the loop body once the escape e at cur is decoded
DecodeAppend(buf, cur, out, e) ==
    IF e.bad THEN [cur |-> cur, out |-> out, bad |-> TRUE]
    ELSE DecodeString(buf, cur + e.step + 1, out \o e.out)

\* second pass; bad stands for an error return inside the loop
DecodeString(buf, cur, out) ==
    IF cur <= Len(buf) /\ buf[cur] # Ch("\"")
    THEN IF buf[cur] = Ch("\\")
         THEN IF cur + 1 > Len(buf)
              THEN [cur |-> cur + 1, out |-> out, bad |-> TRUE]
              ELSE DecodeAppend(buf, cur + 1, out, DecodeEscape(buf, cur + 1, buf[cur + 1]))
         ELSE DecodeString(buf, cur + 1, Append(out, buf[cur]))
    ELSE [cur |-> cur, out |-> out, bad |-> FALSE]

\* NewStringUTF reads its argument up to the first NUL
RECURSIVE CStr(_)
CStr(s) == IF s = <<>> \/ Head(s) = 0 THEN <<>> ELSE <<Head(s)>> \o CStr(Tail(s))

JString(s) == [k |-> "String", s |-> CStr(s)]

\* the string with escapes, d = what the second pass left
StringDecoded(d, len) ==
    IF d.bad \/ d.cur > len THEN Fail(d.cur, FALSE)
    ELSE Res(JString(d.out), d.cur + 1, TRUE, FALSE, FALSE)

\* after the first pass sc over the bytes from start
StringScanned(buf, start, sc) ==
    IF sc.bad \/ sc.scan > Len(buf) THEN Fail(start, FALSE)
    ELSE IF ~sc.hasEscapes
    THEN Res(JString(SubSeq(buf, start, sc.scan - 1)), sc.scan + 1, TRUE, FALSE, FALSE)
    ELSE StringDecoded(DecodeString(buf, start, <<>>), Len(buf))

\* the cursor is on the opening quote
parseJsonString(buf, cur0) == StringScanned(buf, cur0 + 1, ScanString(buf, cur0 + 1, FALSE))

RECURSIVE SkipDigits(_, _)
SkipDigits(buf, cur) ==
    IF cur <= Len(buf) /\ IsDigit(buf[cur]) THEN SkipDigits(buf, cur + 1) ELSE cur

RECURSIVE DigitsValue(_, _)
DigitsValue(s, acc) ==
    IF s = <<>> THEN acc ELSE DigitsValue(Tail(s), acc * 10 + (Head(s) - Ch("0")))

\* strtoll(numStr, NULL, 10) on a literal the scan accepted
StrToLL(s) ==
    IF Head(s) = Ch("-") THEN 0 - DigitsValue(Tail(s), 0) ELSE DigitsValue(s, 0)

\* the number object for the literal buf[start..cur-1];
\* a Double keeps the literal that strtod converts
NumberValue(buf, start, cur, isFloatingPoint) ==
    IF cur - start = 0 \/ cur - start > MAX_JSON_NUMBER_LEN THEN Fail(cur, FALSE)
    ELSE IF isFloatingPoint
    THEN Res([k |-> "Double", text |-> SubSeq(buf, start, cur - 1)], cur, TRUE, FALSE, FALSE)
    ELSE Res([k |-> "Long", n |-> StrToLL(SubSeq(buf, start, cur - 1))], cur,
             TRUE, FALSE, FALSE)

\* an exponent that leaves the number an integer
NumberExponentDigitsAsInteger(buf, start, c4, c5) ==
    IF c5 = c4 THEN Fail(c5, FALSE) ELSE NumberValue(buf, start, c5, FALSE)

\* the exponent digits ran from c4 to c5
NumberExponentDigits(buf, start, c4, c5) ==
    IF c5 = c4 THEN Fail(c5, FALSE) ELSE NumberValue(buf, start, c5, TRUE)

NumberExponentFrom(buf, start, c4) ==
    NumberExponentDigits(buf, start, c4, SkipDigits(buf, c4))

\* the optional sign of the exponent
SkipSign(buf, cur) ==
    IF cur <= Len(buf) /\ (buf[cur] = Ch("+") \/ buf[cur] = Ch("-")) THEN cur + 1 ELSE cur

\* the optional exponent at c3
NumberExponent(buf, start, c3, isFloatingPoint) ==
    IF c3 <= Len(buf) /\ (buf[c3] = Ch("e") \/ buf[c3] = Ch("E"))
    THEN NumberExponentFrom(buf, start, SkipSign(buf, c3 + 1))
    ELSE NumberValue(buf, start, c3, isFloatingPoint)

\* the decimal digits ran from c2 + 1 to c3
NumberFractionDigits(buf, start, c2, c3) ==
    IF c3 = c2 + 1 THEN Fail(c3, FALSE) ELSE NumberExponent(buf, start, c3, TRUE)

\* the optional fraction at c2
NumberFraction(buf, start, c2) ==
    IF c2 <= Len(buf) /\ buf[c2] = Ch(".")
    THEN NumberFractionDigits(buf, start, c2, SkipDigits(buf, c2 + 1))
    ELSE NumberExponent(buf, start, c2, FALSE)

\* the integer digits ran from c1 to c2
NumberIntegerDigits(buf, start, c1, c2) ==
    IF c2 = c1 THEN Fail(c2, FALSE) ELSE NumberFraction(buf, start, c2)

NumberFrom(buf, start, c1) == NumberIntegerDigits(buf, start, c1, SkipDigits(buf, c1))

\* the optional minus sign
SkipMinus(buf, cur) ==
    IF cur <= Len(buf) /\ buf[cur] = Ch("-") THEN cur + 1 ELSE cur

parseJsonNumber(buf, start) == NumberFrom(buf, start, SkipMinus(buf, start))

\* HashMap.put
MapPut(m, key, value) ==
    [x \in (DOMAIN m) \cup {key} |-> IF x = key THEN value ELSE m[x]]

EmptyMap == [x \in {} |-> JNull]

RECURSIVE parseJsonValue(_, _)
RECURSIVE ObjectLoop(_, _, _, _, _)
RECURSIVE ArrayLoop(_, _, _, _, _)

\* after the member: the closing brace, a comma, or an error, at e0
ObjectSeparator(buf, e0, map, sw, oob) ==
    IF e0 > Len(buf) THEN Fail(e0, oob)
    ELSE IF buf[e0] = Ch("}") THEN Res([k |-> "Map", m |-> map], e0 + 1, TRUE, sw, oob)
    ELSE IF buf[e0] = Ch(",") THEN ObjectLoop(buf, e0 + 1, map, sw, oob)
    ELSE Fail(e0, oob)

\* map.put(key, value), whatever parseJsonValue returned
ObjectPut(buf, key, val, map, sw, oob) ==
    ObjectSeparator(buf, skipWhitespace(buf, val.cur), MapPut(map, key.v.s, val.v),
                    sw \/ val.sw \/ ~val.ok, oob \/ val.oob)

\* the colon at c0, then the member value
ObjectColon(buf, key, c0, map, sw, oob) ==
    IF c0 > Len(buf) \/ buf[c0] # Ch(":") THEN Fail(c0, oob)
    ELSE ObjectPut(buf, key, parseJsonValue(buf, c0 + 1), map, sw, oob)

\* the key as parseJsonString returned it
ObjectKeyParsed(buf, key, map, sw, oob) ==
    IF ~key.ok THEN Fail(key.cur, oob)
    ELSE ObjectColon(buf, key, skipWhitespace(buf, key.cur), map, sw, oob)

\* if (**cursor != '"') at k0, with no test of k0 against end
ObjectKey(buf, k0, map, sw, oob) ==
    IF ByteAt(buf, k0) # Ch("\"") THEN Fail(k0, oob \/ k0 > Len(buf))
    ELSE ObjectKeyParsed(buf, parseJsonString(buf, k0), map, sw, oob)

\* the while loop of parseJsonObject
ObjectLoop(buf, cur, map, sw, oob) ==
    IF cur > Len(buf) THEN Fail(cur, oob)
    ELSE ObjectKey(buf, skipWhitespace(buf, cur), map, sw, oob)

\* after the opening brace and the whitespace behind it
ObjectBody(buf, c0) ==
    IF c0 <= Len(buf) /\ buf[c0] = Ch("}")
    THEN Res([k |-> "Map", m |-> EmptyMap], c0 + 1, TRUE, FALSE, FALSE)
    ELSE ObjectLoop(buf, c0, EmptyMap, FALSE, FALSE)

\* the cursor is on the opening brace
parseJsonObject(buf, cur0) == ObjectBody(buf, skipWhitespace(buf, cur0 + 1))

\* after the element: the closing bracket, a comma, or an error, at e0
ArraySeparator(buf, e0, list, sw, oob) ==
    IF e0 > Len(buf) THEN Fail(e0, oob)
    ELSE IF buf[e0] = Ch("]") THEN Res([k |-> "List", items |-> list], e0 + 1, TRUE, sw, oob)
    ELSE IF buf[e0] = Ch(",") THEN ArrayLoop(buf, e0 + 1, list, sw, oob)
    ELSE Fail(e0, oob)

\* list.add(value), whatever parseJsonValue returned
ArrayAdd(buf, val, list, sw, oob) ==
    ArraySeparator(buf, skipWhitespace(buf, val.cur), Append(list, val.v),
                   sw \/ val.sw \/ ~val.ok, oob \/ val.oob)

\* the while loop of parseJsonArray
ArrayLoop(buf, cur, list, sw, oob) ==
    IF cur > Len(buf) THEN Fail(cur, oob)
    ELSE ArrayAdd(buf, parseJsonValue(buf, cur), list, sw, oob)

\* after the opening bracket and the whitespace behind it
ArrayBody(buf, c0) ==
    IF c0 <= Len(buf) /\ buf[c0] = Ch("]")
    THEN Res([k |-> "List", items |-> <<>>], c0 + 1, TRUE, FALSE, FALSE)
    ELSE ArrayLoop(buf, c0, <<>>, FALSE, FALSE)

\* the cursor is on the opening bracket
parseJsonArray(buf, cur0) == ArrayBody(buf, skipWhitespace(buf, cur0 + 1))

\* the switch on the first byte c of the value, at cur
ValueSwitch(buf, cur, c) ==
    IF c = Ch("{") THEN parseJsonObject(buf, cur)
    ELSE IF c = Ch("[") THEN parseJsonArray(buf, cur)
    ELSE IF c = Ch("\"") THEN parseJsonString(buf, cur)
    ELSE IF c = Ch("t")
    THEN IF MatchesLiteral(buf, cur, Bytes(<<"t", "r", "u", "e">>))
         THEN Res([k |-> "Boolean", b |-> TRUE], cur + 4, TRUE, FALSE, FALSE)
         ELSE Fail(cur, FALSE)
    ELSE IF c = Ch("f")
    THEN IF MatchesLiteral(buf, cur, Bytes(<<"f", "a", "l", "s", "e">>))
         THEN Res([k |-> "Boolean", b |-> FALSE], cur + 5, TRUE, FALSE, FALSE)
         ELSE Fail(cur, FALSE)
    ELSE IF c = Ch("n")
    THEN IF MatchesLiteral(buf, cur, Bytes(<<"n", "u", "l", "l">>))
         THEN Res(JNull, cur + 4, TRUE, FALSE, FALSE)
         ELSE Fail(cur, FALSE)
    ELSE IF c = Ch("-") \/ IsDigit(c) THEN parseJsonNumber(buf, cur)
    ELSE Fail(cur, FALSE)

\* after the leading whitespace
ValueAt(buf, cur) ==
    IF cur > Len(buf) THEN Fail(cur, FALSE) ELSE ValueSwitch(buf, cur, buf[cur])

\* parseJsonValue with the class cache initialised
parseJsonValue(buf, cur0) == ValueAt(buf, skipWhitespace(buf, cur0))

\* the jobject handed to Java is parseJsonValue's, whatever follows it
nativeParseJson(buf) == parseJsonValue(buf, 1)

-----------------------------------------------------------------------------
(* The JSON class/method cache (json_parser.c:4-58) under concurrent parses *)

\* A document per cache user: parseJsonObject, parseJsonArray, the true
\* branch of parseJsonValue, the Long branch of parseJsonNumber.
JsonDocs == {"{}", "[]", "true", "1"}

\* what a parse of the document returns once the cache is complete
JsonExpected(doc) ==
    CASE doc = "{}" -> "HashMap"
      [] doc = "[]" -> "ArrayList"
      [] doc = "true" -> "Boolean.TRUE"
      [] doc = "1" -> "Long"

\* json_parser.c:4-17: the statics, all NULL / 0
CacheInit ==
    [cachedHashMapClass |-> "NULL", cachedArrayListClass |-> "NULL",
     cachedBooleanClass |-> "NULL", cachedLongClass |-> "NULL",
     cachedDoubleClass |-> "NULL", cachedHashMapConstructor |-> "NULL",
     cachedHashMapPut |-> "NULL", cachedArrayListConstructor |-> "NULL",
     cachedArrayListAdd |-> "NULL", cachedBooleanTrueField |-> "NULL",
     cachedBooleanFalseField |-> "NULL", cachedLongConstructor |-> "NULL",
     cachedDoubleConstructor |-> "NULL", jniCacheInitialized |-> "0"]

\* FindClass returns a local reference of the calling thread
LocalRef(t) == IF t = 1 THEN "local1" ELSE "local2"

\* json_parser.c:23-57: the stores of initJsonParserCache in program order
\* (FindClass finds the java.* classes, so every if (cachedXClass) is taken)
InitProgram ==
    << [f |-> "cachedHashMapClass", v |-> "local"],
       [f |-> "cachedHashMapClass", v |-> "global"],
       [f |-> "cachedHashMapConstructor", v |-> "id"],
       [f |-> "cachedHashMapPut", v |-> "id"],
       [f |-> "cachedArrayListClass", v |-> "local"],
       [f |-> "cachedArrayListClass", v |-> "global"],
       [f |-> "cachedArrayListConstructor", v |-> "id"],
       [f |-> "cachedArrayListAdd", v |-> "id"],
       [f |-> "cachedBooleanClass", v |-> "local"],
       [f |-> "cachedBooleanClass", v |-> "global"],
       [f |-> "cachedBooleanTrueField", v |-> "id"],
       [f |-> "cachedBooleanFalseField", v |-> "id"],
       [f |-> "cachedLongClass", v |-> "local"],
       [f |-> "cachedLongClass", v |-> "global"],
       [f |-> "cachedLongConstructor", v |-> "id"],
       [f |-> "cachedDoubleClass", v |-> "local"],
       [f |-> "cachedDoubleClass", v |-> "global"],
       [f |-> "cachedDoubleConstructor", v |-> "id"],
       [f |-> "jniCacheInitialized", v |-> "1"] >>

\* the if (!cachedXClass) initJsonParserCache(env) in front of each use:
\* json_parser.c:151, 248, 97, 566
NeedsInit(c, doc) ==
    CASE doc = "{}" -> c.cachedHashMapClass = "NULL"
      [] doc = "[]" -> c.cachedArrayListClass = "NULL"
      [] doc = "true" -> c.cachedBooleanClass = "NULL"
      [] doc = "1" -> c.cachedDoubleClass = "NULL" \/ c.cachedLongClass = "NULL"

\* the class a use hands to the JVM
UsedClass(c, doc) ==
    CASE doc = "{}" -> c.cachedHashMapClass
      [] doc = "[]" -> c.cachedArrayListClass
      [] doc = "true" -> c.cachedBooleanClass
      [] doc = "1" -> c.cachedLongClass

\* json_parser.c:156, 253, 100, 580: the cache entries the use needs
CacheUsable(c, doc) ==
    CASE doc = "{}" -> /\ c.cachedHashMapClass # "NULL"
                       /\ c.cachedHashMapConstructor # "NULL"
                       /\ c.cachedHashMapPut # "NULL"
      [] doc = "[]" -> /\ c.cachedArrayListClass # "NULL"
                       /\ c.cachedArrayListConstructor # "NULL"
                       /\ c.cachedArrayListAdd # "NULL"
      [] doc = "true" -> /\ c.cachedBooleanClass # "NULL"
                         /\ c.cachedBooleanTrueField # "NULL"
      [] doc = "1" -> /\ c.cachedLongClass # "NULL"
                      /\ c.cachedLongConstructor # "NULL"

\* What the use returns. A local reference of another thread is not valid in
\* this one: the JVM may resolve it or fail.
UseResults(c, doc, t) ==
    IF ~CacheUsable(c, doc) THEN {"NULL"}
    ELSE IF UsedClass(c, doc) \in {"global", LocalRef(t)} THEN {JsonExpected(doc)}
    ELSE {JsonExpected(doc), "JVM_ERROR"}

JtIdle == [pc |-> "idle", doc |-> "none", ip |-> 0, result |-> "none"]

\* nativeParseJson entered with a valid document; the parser reaches the
\* function that builds its value
JsonCallEnter(t, doc) ==
    /\ jt[t].pc = "idle"
    /\ jt' = [jt EXCEPT ![t] = [pc |-> "need", doc |-> doc, ip |-> 0, result |-> "none"]]
    /\ UNCHANGED <<regVars, jsonCache, json, body>>

\* json_parser.c:151, 248, 97, 566: the read of the class static
JsonCacheCheck(t) ==
    /\ jt[t].pc = "need"
    /\ jt' = [jt EXCEPT ![t].pc =
                 IF NeedsInit(jsonCache, jt[t].doc) THEN "init_entry" ELSE "use"]
    /\ UNCHANGED <<regVars, jsonCache, json, body>>

\* json_parser.c:21: if (jniCacheInitialized || env == NULL) return
JsonInitEnter(t) ==
    /\ jt[t].pc = "init_entry"
    /\ jt' = [jt EXCEPT ![t] =
                 IF jsonCache.jniCacheInitialized = "1"
                 THEN [@ EXCEPT !.pc = "use"]
                 ELSE [@ EXCEPT !.pc = "init", !.ip = 1]]
    /\ UNCHANGED <<regVars, jsonCache, json, body>>

\* json_parser.c:23-57: one store of initJsonParserCache
JsonInitStep(t) ==
    /\ jt[t].pc = "init"
    /\ LET s == InitProgram[jt[t].ip]
           val == IF s.v = "local" THEN LocalRef(t) ELSE s.v
       IN  jsonCache' = [jsonCache EXCEPT ![s.f] = val]
    /\ jt' = [jt EXCEPT ![t] =
                 IF jt[t].ip = Len(InitProgram)
                 THEN [@ EXCEPT !.pc = "use", !.ip = 0]
                 ELSE [@ EXCEPT !.ip = @ + 1]]
    /\ UNCHANGED <<regVars, json, body>>

\* json_parser.c:156-160, 253-257, 100-103, 580-581: the use and the return
JsonUse(t) ==
    /\ jt[t].pc = "use"
    /\ \E r \in UseResults(jsonCache, jt[t].doc, t) :
           jt' = [jt EXCEPT ![t].pc = "idle", ![t].result = r]
    /\ UNCHANGED <<regVars, jsonCache, json, body>>

JsonCacheNext ==
    \E t \in Threads :
        \/ \E doc \in JsonDocs : JsonCallEnter(t, doc)
        \/ JsonCacheCheck(t)
        \/ JsonInitEnter(t)
        \/ JsonInitStep(t)
        \/ JsonUse(t)

-----------------------------------------------------------------------------
(* nativeParseJson on one input *)

JsonTokens ==
    { <<"[">>, <<"]">>, <<"{">>, <<"}">>, <<",">>, <<":">>, <<" ">>,
      <<"1">>, <<"-">>, <<".">>,
      <<"n", "u", "l", "l">>, <<"\"", "a", "\"">> }

RECURSIVE Flatten(_)
Flatten(ts) == IF ts = <<>> THEN <<>> ELSE Head(ts) \o Flatten(Tail(ts))

\* the input buffers: up to MaxToks tokens each
\* objects that end behind a comma, with and without whitespace after it
CommaEndedObjects ==
    { Bytes(<<"{", "\"", "a", "\"", ":", "1", ",">> \o ws) :
          ws \in { <<>>, <<" ">>, <<" ", "\n">> } }

JsonInputs ==
    { Bytes(Flatten(ts)) : ts \in UNION { [1..n -> JsonTokens] : n \in 0..MaxToks } }
        \cup CommaEndedObjects

JsonIdle == [pc |-> "idle", input |-> <<>>, out |-> Fail(0, FALSE)]

\* blyfastnative.c:124-146
ParseJson ==
    /\ json.pc = "called"
    /\ json' = [json EXCEPT !.pc = "returned", !.out = nativeParseJson(json.input)]
    /\ UNCHANGED <<regVars, jsonCache, jt, body>>

-----------------------------------------------------------------------------
(* The body decoders: urlDecode (utils.c), parseFormData (form_parser.c) *)

\* buffer[i] with the 0-based index of the C code
At(buffer, i) == buffer[i + 1]

\* src + start, len: the span handed to a callee
Span(buffer, start, len) == SubSeq(buffer, start + 1, start + len)

\* utils.c:90-92 as '+' is not handled at all
UrlDecodeAtPlusLiteral(src, i, len) ==
    IF At(src, i) = Ch("%") /\ i + 2 < len
          /\ hexCharToInt(At(src, i + 1)) >= 0 /\ hexCharToInt(At(src, i + 2)) >= 0
    THEN [b |-> 16 * hexCharToInt(At(src, i + 1)) + hexCharToInt(At(src, i + 2)),
          skip |-> 2]
    ELSE [b |-> At(src, i), skip |-> 0]

\* utils.c:73-102: the byte stored for src[i] and what is added to i
UrlDecodeAt(src, i, len) ==
    IF At(src, i) = Ch("%") /\ i + 2 < len
    THEN IF hexCharToInt(At(src, i + 1)) >= 0 /\ hexCharToInt(At(src, i + 2)) >= 0
         THEN [b |-> 16 * hexCharToInt(At(src, i + 1)) + hexCharToInt(At(src, i + 2)),
               skip |-> 2]
         ELSE [b |-> At(src, i), skip |-> 0]
    ELSE IF At(src, i) = Ch("+") THEN [b |-> 32, skip |-> 0]
    ELSE [b |-> At(src, i), skip |-> 0]

RECURSIVE UrlDecodeLoop(_, _, _, _)
\* utils.c:72-103: for (i = 0; i < len && j < maxDestLen - 1; i++), j = Len(dest)
UrlDecodeLoop(src, i, len, dest) ==
    IF i < len /\ Len(dest) < (len + 1) - 1
    THEN UrlDecodeLoop(src, i + UrlDecodeAt(src, i, len).skip + 1, len,
                       Append(dest, UrlDecodeAt(src, i, len).b))
    ELSE dest

\* utils.c:63-106: the bytes left in dest; the return value is their number
urlDecode(src, len) == IF len < 0 THEN <<>> ELSE UrlDecodeLoop(src, 0, len, <<>>)

\* *((int*)(result + resultPos)) = n on a little-endian build
Int32Bytes(n) ==
    << n % 256, (n \div 256) % 256, (n \div 65536) % 256, (n \div 16777216) % 256 >>

\* form_parser.c:45-50, 66-71: a length field and the decoded bytes
FormField(decoded) == Int32Bytes(Len(decoded)) \o decoded

\* form_parser.c:35
FormByte(buffer, i) == IF i < Len(buffer) THEN At(buffer, i) ELSE Ch("&")

\* form_parser.c:55-58
FormValueStart(i, valueStart) == IF valueStart = -1 THEN i ELSE valueStart

RECURSIVE FormLoop(_, _, _, _, _)
\* form_parser.c:34-77
FormLoop(buffer, i, result, keyStart, valueStart) ==
    IF i > Len(buffer) THEN result
    ELSE IF FormByte(buffer, i) = Ch("=") /\ valueStart = -1
    THEN FormLoop(buffer, i + 1,
                  result \o FormField(urlDecode(Span(buffer, keyStart, i - keyStart),
                                                i - keyStart)),
                  keyStart, i + 1)
    ELSE IF FormByte(buffer, i) = Ch("&")
    THEN FormLoop(buffer, i + 1,
                  result \o FormField(urlDecode(Span(buffer, FormValueStart(i, valueStart),
                                                     i - FormValueStart(i, valueStart)),
                                                i - FormValueStart(i, valueStart))),
                  i + 1, -1)
    ELSE FormLoop(buffer, i + 1, result, keyStart, valueStart)

\* form_parser.c:15, 84: result is malloc(length * 3); a write past it is a
\* heap overflow, after which the call may still return the buffer or the
\* process may fail
FormReturn(buffer, result) ==
    IF Len(result) > Len(buffer) * FormResultFactor
    THEN { [ret |-> "buffer", buf |-> result], [ret |-> "heap_overflow", buf |-> <<>>] }
    ELSE { [ret |-> "buffer", buf |-> result] }

\* form_parser.c:6-88
parseFormData(buffer) ==
    IF Len(buffer) <= 0 THEN { [ret |-> "NULL", buf |-> <<>>] }
    ELSE FormReturn(buffer, FormLoop(buffer, 0, <<>>, 0, -1))

BodyIdle == [pc |-> "idle", fn |-> "none", input |-> <<>>, out |-> [ret |-> "none", buf |-> <<>>]]

BodyCall(fn, in) == [pc |-> "called", fn |-> fn, input |-> in, out |-> [ret |-> "none", buf |-> <<>>]]

\* blyfastnative.c:855-858: nativeFastParseBody with bodyType 2
ParseFormData ==
    /\ body.pc = "called"
    /\ body.fn = "parseFormData"
    /\ \E o \in parseFormData(body.input) :
           body' = [body EXCEPT !.pc = "returned", !.out = o]
    /\ UNCHANGED <<regVars, jsonVars>>

\* one urlDecode call on a span
UrlDecode ==
    /\ body.pc = "called"
    /\ body.fn = "urlDecode"
    /\ body' = [body EXCEPT !.pc = "returned",
                            !.out = [ret |-> "decoded",
                                     buf |-> urlDecode(body.input, Len(body.input))]]
    /\ UNCHANGED <<regVars, jsonVars>>

FormTokens == { <<"a">>, <<"b">>, <<"=">>, <<"&">>, <<"+">>, <<"%", "4", "1">> }

\* form bodies of up to MaxFormToks tokens, and the body a=1&b=2&c
FormInputs ==
    { Bytes(Flatten(ts)) : ts \in UNION { [1..n -> FormTokens] : n \in 0..MaxFormToks } }
        \cup { Bytes(<<"a", "=", "1", "&", "b", "=", "2", "&", "c">>) }

SpanBytes == { Ch("%"), Ch("4"), Ch("1"), Ch("g"), Ch("+"), Ch("a") }

\* raw key or value spans of up to MaxSpanLen bytes
SpanInputs == UNION { [1..n -> SpanBytes] : n \in 0..MaxSpanLen }

-----------------------------------------------------------------------------
(* parseMultipartForm (form_parser.c:101-482); its bytes are characters.
   Every malloc is taken to succeed. *)

IsLineEnd(c) == c = "\r" \/ c = "\n"

\* k + 1 < length && buffer[k] == '-' && buffer[k+1] == '-'
DashDashAt(buffer, k) ==
    k + 1 < Len(buffer) /\ At(buffer, k) = "-" /\ At(buffer, k + 1) = "-"

RECURSIVE IsLikelyBoundary(_, _, _)
\* form_parser.c:137-148
IsLikelyBoundary(buffer, j, k) ==
    IF k >= Len(buffer) THEN FALSE
    ELSE IF IsLineEnd(At(buffer, k)) \/ DashDashAt(buffer, k) THEN TRUE
    ELSE IF k - j > BoundaryLookahead \/ k - j >= BoundarySize - 1 THEN FALSE
    ELSE IsLikelyBoundary(buffer, j, k + 1)

RECURSIVE ExtractBoundary(_, _, _)
\* form_parser.c:152-158
ExtractBoundary(buffer, j, boundary) ==
    IF /\ j < Len(buffer)
       /\ ~IsLineEnd(At(buffer, j))
       /\ ~DashDashAt(buffer, j)
       /\ Len(boundary) < BoundarySize - 1
    THEN ExtractBoundary(buffer, j + 1, Append(boundary, At(buffer, j)))
    ELSE boundary

RECURSIVE FindBoundary(_, _)
\* form_parser.c:131-162: the boundary token, <<>> when boundaryLen stays 0
FindBoundary(buffer, i) ==
    IF ~(i < Len(buffer) - 10) THEN <<>>
    ELSE IF DashDashAt(buffer, i) /\ IsLikelyBoundary(buffer, i + 2, i + 2)
    THEN ExtractBoundary(buffer, i + 2, <<>>)
    ELSE FindBoundary(buffer, i + 1)

\* form_parser.c:186: "--%s"
BoundaryStart(boundary) == <<"-", "-">> \o boundary

\* form_parser.c:187: "--%s--"
BoundaryEnd(boundary) == <<"-", "-">> \o boundary \o <<"-", "-">>

RECURSIVE FindBytes(_, _, _)
\* the first i' >= i with i' <= length - n and memcmp(buffer + i', marker, n) == 0,
\* -1 if there is none (form_parser.c:200-212, 335-345; strstr, strchr)
FindBytes(buffer, i, marker) ==
    IF i > Len(buffer) - Len(marker) THEN -1
    ELSE IF Span(buffer, i, Len(marker)) = marker THEN i
    ELSE FindBytes(buffer, i + 1, marker)

RECURSIVE SkipLineEnds(_, _)
\* form_parser.c:225-228
SkipLineEnds(buffer, headerStart) ==
    IF headerStart < Len(buffer) /\ IsLineEnd(At(buffer, headerStart))
    THEN SkipLineEnds(buffer, headerStart + 1)
    ELSE headerStart

RECURSIVE FindLineEndCRLF(_, _)
\* form_parser.c:242-246
FindLineEndCRLF(buffer, lineEnd) ==
    IF /\ lineEnd < Len(buffer)
       /\ ~(lineEnd + 1 < Len(buffer) /\ At(buffer, lineEnd) = "\r"
              /\ At(buffer, lineEnd + 1) = "\n")
    THEN FindLineEndCRLF(buffer, lineEnd + 1)
    ELSE lineEnd

\* strncasecmp(headerLine, prefix, n) == 0 with n the length of prefix
StrNCaseEq(headerLine, prefix) ==
    /\ Len(headerLine) >= Len(prefix)
    /\ \A i \in 1..Len(prefix) : ToLower(headerLine[i]) = ToLower(prefix[i])

RECURSIVE SkipSpaces(_, _)
\* form_parser.c:273, 313
SkipSpaces(headerLine, valueStart) ==
    IF valueStart < Len(headerLine) /\ IsSpaceTab(At(headerLine, valueStart))
    THEN SkipSpaces(headerLine, valueStart + 1)
    ELSE valueStart

\* form_parser.c:279-288, 296-303: the text from start to the next '"' when
\* its length is in 1..1023, <<>> when nothing is stored
QuotedText(headerLine, start, end) ==
    IF end # -1 /\ end - start > 0 /\ end - start < PartNameLimit
    THEN Span(headerLine, start, end - start)
    ELSE <<>>

\* form_parser.c:276-279, 293-296: strstr(valueStart, key), then strchr
QuotedAfter(headerLine, key, found) ==
    IF found = -1 THEN <<>>
    ELSE QuotedText(headerLine, found + Len(key),
                    FindBytes(headerLine, found + Len(key), <<"\"">>))

NameKey == <<"n", "a", "m", "e", "=", "\"">>

FilenameKey == <<"f", "i", "l", "e", "n", "a", "m", "e", "=", "\"">>

ContentDisposition ==
    <<"C", "o", "n", "t", "e", "n", "t", "-", "D", "i", "s", "p", "o", "s", "i", "t",
      "i", "o", "n", ":">>

ContentType == <<"C", "o", "n", "t", "e", "n", "t", "-", "T", "y", "p", "e", ":">>

\* form_parser.c:283-287: part->name is written only when a name was found
SetName(part, name) == IF name = <<>> THEN part ELSE [part EXCEPT !.name = name]

\* form_parser.c:300-305
SetFilename(part, filename) ==
    IF filename = <<>> THEN part
    ELSE [part EXCEPT !.filename = filename, !.isFile = 1]

\* form_parser.c:272-308
ParseDisposition(part, headerLine, valueStart) ==
    SetFilename(
        SetName(part, QuotedAfter(headerLine, NameKey,
                                  FindBytes(headerLine, valueStart, NameKey))),
        QuotedAfter(headerLine, FilenameKey,
                    FindBytes(headerLine, valueStart, FilenameKey)))

\* form_parser.c:312-322
ParseContentType(part, headerLine, valueStart) ==
    IF Len(headerLine) - valueStart > 0 /\ Len(headerLine) - valueStart < ContentTypeLimit
    THEN [part EXCEPT !.contentType =
                          Span(headerLine, valueStart, Len(headerLine) - valueStart)]
    ELSE part

\* form_parser.c:270-323: one header line; disposition is history, the
\* Content-Disposition line of the block being parsed
ParsePartHeader(part, headerLine) ==
    IF StrNCaseEq(headerLine, ContentDisposition)
    THEN [ParseDisposition(part, headerLine, SkipSpaces(headerLine, 20))
              EXCEPT !.disposition = headerLine]
    ELSE IF StrNCaseEq(headerLine, ContentType)
    THEN ParseContentType(part, headerLine, SkipSpaces(headerLine, 13))
    ELSE part

RECURSIVE HeaderLoop(_, _, _)
RECURSIVE HeaderLine(_, _, _, _)

\* form_parser.c:248-328: the line from headerEnd to lineEnd
HeaderLine(buffer, headerEnd, lineEnd, part) ==
    IF lineEnd >= Len(buffer) THEN [headerEnd |-> headerEnd, part |-> part]
    ELSE IF lineEnd - headerEnd = 0 THEN [headerEnd |-> lineEnd + 2, part |-> part]
    ELSE HeaderLoop(buffer, lineEnd + 2,
                    ParsePartHeader(part, Span(buffer, headerEnd, lineEnd - headerEnd)))

\* form_parser.c:239-329
HeaderLoop(buffer, headerEnd, part) ==
    IF headerEnd < Len(buffer)
    THEN HeaderLine(buffer, headerEnd, FindLineEndCRLF(buffer, headerEnd), part)
    ELSE [headerEnd |-> headerEnd, part |-> part]

\* form_parser.c:124: memset(parts, 0, sizeof(parts)); boundaryPos and
\* disposition are history
EmptyPart ==
    [name |-> <<>>, filename |-> <<>>, contentType |-> <<>>, isFile |-> 0,
     data |-> 0, dataLength |-> 0, boundaryPos |-> 0, disposition |-> <<>>]

\* form_parser.c:338-342 as the CRLF in front of the boundary is kept
NextBoundaryPosKeepCRLF(buffer, i) == IF i = -1 THEN Len(buffer) ELSE i

\* form_parser.c:333-345
NextBoundaryPos(buffer, i) ==
    IF i = -1 THEN Len(buffer)
    ELSE IF i >= 2 /\ At(buffer, i - 2) = "\r" /\ At(buffer, i - 1) = "\n" THEN i - 2
    ELSE i

RECURSIVE PartLoop(_, _, _, _, _, _)

\* form_parser.c:347-358: record the part or skip it; a recorded part moves
\* on to the next, zeroed, element of parts
PartRecord(buffer, boundary, contentStart, nextBoundaryPos, part, parts, seen) ==
    IF contentStart < nextBoundaryPos /\ nextBoundaryPos <= Len(buffer)
    THEN PartLoop(buffer, boundary, nextBoundaryPos,
                  Append(parts, [part EXCEPT !.data = contentStart,
                                             !.dataLength = nextBoundaryPos - contentStart]),
                  EmptyPart, seen)
    ELSE PartLoop(buffer, boundary, nextBoundaryPos, parts, part, seen)

\* form_parser.c:331-345
PartContent(buffer, boundary, h, parts, seen) ==
    PartRecord(buffer, boundary, h.headerEnd,
               NextBoundaryPos(buffer,
                               FindBytes(buffer, h.headerEnd, BoundaryStart(boundary))),
               h.part, parts, seen)

\* form_parser.c:230-239
PartHeaders(buffer, boundary, boundaryPos, headerStart, parts, part, seen) ==
    IF headerStart >= Len(buffer) THEN [parts |-> parts, seen |-> seen]
    ELSE PartContent(buffer, boundary,
                     HeaderLoop(buffer, headerStart,
                                [part EXCEPT !.boundaryPos = boundaryPos,
                                             !.disposition = <<>>]),
                     parts, seen)

\* form_parser.c:202-228; seen is history: the offset at which each iteration
\* found its boundary
PartAtBoundary(buffer, boundary, boundaryPos, parts, part, seen) ==
    IF boundaryPos = -1 THEN [parts |-> parts, seen |-> seen]
    ELSE IF /\ boundaryPos + Len(BoundaryEnd(boundary)) <= Len(buffer)
            /\ Span(buffer, boundaryPos, Len(BoundaryEnd(boundary))) = BoundaryEnd(boundary)
    THEN [parts |-> parts, seen |-> Append(seen, boundaryPos)]
    ELSE PartHeaders(buffer, boundary, boundaryPos,
                     SkipLineEnds(buffer, boundaryPos + Len(BoundaryStart(boundary))),
                     parts, part, Append(seen, boundaryPos))

\* form_parser.c:196 as the loop ran on past MAX_PARTS recorded parts
PartLoopNoCap(buffer, boundary, pos, parts, part, seen) ==
    IF pos < Len(buffer)
    THEN PartAtBoundary(buffer, boundary,
                        FindBytes(buffer, pos, BoundaryStart(boundary)),
                        parts, part, seen)
    ELSE [parts |-> parts, seen |-> seen]

\* form_parser.c:196-359: parts recorded so far, part the element
\* parts[partCount] being filled
PartLoop(buffer, boundary, pos, parts, part, seen) ==
    IF pos < Len(buffer) /\ Len(parts) < MAX_PARTS
    THEN PartAtBoundary(buffer, boundary,
                        FindBytes(buffer, pos, BoundaryStart(boundary)),
                        parts, part, seen)
    ELSE [parts |-> parts, seen |-> seen]

\* form_parser.c:361-468: NULL without a part, else the buffer that holds the
\* part count and every part's fields and data
MultipartReturn(boundary, loop) ==
    IF loop.parts = <<>>
    THEN [ret |-> "NULL", buf |-> <<>>, boundary |-> boundary,
          parts |-> loop.parts, seen |-> loop.seen]
    ELSE [ret |-> "buffer", buf |-> loop.parts, boundary |-> boundary,
          parts |-> loop.parts, seen |-> loop.seen]

\* form_parser.c:164-196
MultipartParts(buffer, boundary) ==
    IF Len(boundary) = 0
    THEN [ret |-> "NULL", buf |-> <<>>, boundary |-> boundary, parts |-> <<>>,
          seen |-> <<>>]
    ELSE MultipartReturn(boundary,
                         PartLoop(buffer, boundary, 0, <<>>, EmptyPart, <<>>))

\* form_parser.c:101-482; boundary, parts and seen are history
parseMultipartForm(buffer) ==
    IF Len(buffer) <= 0
    THEN [ret |-> "NULL", buf |-> <<>>, boundary |-> <<>>, parts |-> <<>>,
          seen |-> <<>>]
    ELSE MultipartParts(buffer, FindBoundary(buffer, 0))

\* blyfastnative.c:860-863: nativeFastParseBody with bodyType 3
ParseMultipartForm ==
    /\ body.pc = "called"
    /\ body.fn = "parseMultipartForm"
    /\ body' = [body EXCEPT !.pc = "returned", !.out = parseMultipartForm(body.input)]
    /\ UNCHANGED <<regVars, jsonVars>>

CRLF == <<"\r", "\n">>

\* the delimiter line of the bodies: "--" and the boundary token b
Delimiter == <<"-", "-", "b">>

FormData == ContentDisposition \o <<" ", "f", "o", "r", "m", "-", "d", "a", "t", "a">>

NameParam == <<";", " ">> \o NameKey \o <<"n", "\"">>

FilenameParam == <<";", " ">> \o FilenameKey \o <<"f", "\"">>

\* header blocks of a part: name, filename, both in either order, and a
\* lower-case header name followed by a Content-Type line
PartHeaderBlocks ==
    { FormData \o NameParam \o CRLF,
      FormData \o FilenameParam \o CRLF,
      FormData \o NameParam \o FilenameParam \o CRLF,
      FormData \o FilenameParam \o NameParam \o CRLF,
      [i \in 1..Len(FormData) |-> ToLower(FormData[i])] \o NameParam \o CRLF
          \o ContentType \o <<" ", "t">> \o CRLF }

\* a part: delimiter line, header block, blank line or none, data
PartTexts ==
    { Delimiter \o CRLF \o h \o blank \o d :
          h \in PartHeaderBlocks, blank \in {CRLF, <<>>},
          d \in {<<>>, <<"x">>, <<"x", "\r", "\n">>} }

SecondPartTexts ==
    { <<>> } \cup
    { Delimiter \o CRLF \o h \o CRLF \o d :
          h \in { FormData \o NameParam \o CRLF, FormData \o FilenameParam \o CRLF,
                  ContentType \o <<" ", "t">> \o CRLF },
          d \in {<<"y">>, <<"y", "\r", "\n">>} }

Preambles == { <<>>, <<"-", "-", "\r", "\n">>, <<"p", "\r", "\n">> }

Endings == { <<>>, Delimiter \o <<"-", "-">>, Delimiter \o <<"-", "-">> \o CRLF }

\* a body shorter than 11 bytes, and bodies whose boundary token is --b
ShortAndDashedBodies ==
    { Delimiter \o CRLF \o <<"x">>,
      <<"-", "-">> \o Delimiter \o CRLF \o FormData \o NameParam \o CRLF \o CRLF
          \o <<"x">> \o CRLF \o <<"-", "-">> \o Delimiter \o <<"-", "-">>,
      <<"-", "-">> \o Delimiter \o CRLF \o <<"x", "x", "x", "x", "x", "x">> }

RECURSIVE ManyParts(_)
\* n parts of one data byte each under a header line that is not recognised
ManyParts(n) ==
    IF n = 0 THEN <<>>
    ELSE Delimiter \o CRLF \o <<"h">> \o CRLF \o CRLF \o <<"x">> \o CRLF
             \o ManyParts(n - 1)

\* bodies with as many parts as parts[] holds and with one more, behind a
\* part without data
CapBodies ==
    { Delimiter \o CRLF \o <<"h">> \o CRLF \o CRLF \o ManyParts(n)
          \o Delimiter \o <<"-", "-">> : n \in {MAX_PARTS, MAX_PARTS + 1} }

MultipartBodies ==
    { pre \o p1 \o p2 \o e :
          pre \in Preambles, p1 \in PartTexts, p2 \in SecondPartTexts, e \in Endings }
        \cup ShortAndDashedBodies \cup CapBodies

-----------------------------------------------------------------------------
(* Specifications *)

\* the handle registry under two threads
Init ==
    /\ RegInit
    /\ jsonCache = CacheInit
    /\ jt = [t \in Threads |-> JtIdle]
    /\ json = JsonIdle
    /\ body = BodyIdle

Next == RegNext

Spec == Init /\ [][Next]_vars

\* two threads parsing JSON from a cold cache
InitJsonCache == Init

SpecJsonCache == InitJsonCache /\ [][JsonCacheNext]_vars

\* one nativeParseJson call on each input, cache complete
InitJson ==
    /\ RegInit
    /\ jsonCache = CacheInit
    /\ jt = [t \in Threads |-> JtIdle]
    /\ \E in \in JsonInputs : json = [pc |-> "called", input |-> in, out |-> Fail(0, FALSE)]
    /\ body = BodyIdle

NextJson == ParseJson

SpecJson == InitJson /\ [][NextJson]_vars

\* JSON strings: a quoted body of plain bytes and \u escapes of surrogates
HighEscape == <<"\\", "u", "d", "8", "0", "0">>

LowEscape == <<"\\", "u", "d", "c", "0", "0">>

StringFragments == { <<"a">>, HighEscape, LowEscape }

StringBodies == UNION { [1..n -> StringFragments] : n \in 0..MaxFrags }

QuotedString(fs) == Bytes(<<"\"">> \o Flatten(fs) \o <<"\"">>)

\* one nativeParseJson call on each quoted string
InitJsonString ==
    /\ RegInit
    /\ jsonCache = CacheInit
    /\ jt = [t \in Threads |-> JtIdle]
    /\ \E fs \in StringBodies :
          json = [pc |-> "called", input |-> QuotedString(fs), out |-> Fail(0, FALSE)]
    /\ body = BodyIdle

SpecJsonString == InitJsonString /\ [][NextJson]_vars

\* JSON numbers: the bytes the number grammar is made of
NumberTokens == { <<"1">>, <<"2">>, <<"-">>, <<".">>, <<"e">>, <<"E">>, <<"+">> }

NumberInputs ==
    { Bytes(Flatten(ts)) : ts \in UNION { [1..n -> NumberTokens] : n \in 0..MaxNumToks } }

\* one nativeParseJson call on each number-like input
InitJsonNumber ==
    /\ RegInit
    /\ jsonCache = CacheInit
    /\ jt = [t \in Threads |-> JtIdle]
    /\ \E in \in NumberInputs :
          json = [pc |-> "called", input |-> in, out |-> Fail(0, FALSE)]
    /\ body = BodyIdle

SpecJsonNumber == InitJsonNumber /\ [][NextJson]_vars

\* one parseFormData call on each form body
InitForm ==
    /\ RegInit
    /\ jsonCache = CacheInit
    /\ jt = [t \in Threads |-> JtIdle]
    /\ json = JsonIdle
    /\ \E in \in FormInputs : body = BodyCall("parseFormData", in)

SpecForm == InitForm /\ [][ParseFormData]_vars

\* one urlDecode call on each span
InitUrlDecode ==
    /\ RegInit
    /\ jsonCache = CacheInit
    /\ jt = [t \in Threads |-> JtIdle]
    /\ json = JsonIdle
    /\ \E in \in SpanInputs : body = BodyCall("urlDecode", in)

SpecUrlDecode == InitUrlDecode /\ [][UrlDecode]_vars

\* one parseMultipartForm call on each multipart body
InitMultipart ==
    /\ RegInit
    /\ jsonCache = CacheInit
    /\ jt = [t \in Threads |-> JtIdle]
    /\ json = JsonIdle
    /\ \E in \in MultipartBodies : body = BodyCall("parseMultipartForm", in)

SpecMultipart == InitMultipart /\ [][ParseMultipartForm]_vars

\* header lines with one name in both cases, and values with spaces and tabs
\* in front and behind
HeaderLines ==
    { <<"a", ":", "1">>, <<"A", ":", " ", "2">>, <<"a", ":", "3", " ">>,
      <<"b", " ", ":", "\t", "4", "\t">> }

RECURSIVE JoinLines(_)
JoinLines(ls) ==
    IF Len(ls) = 1 THEN ls[1] ELSE ls[1] \o <<"\r", "\n">> \o JoinLines(Tail(ls))

\* blocks of 1..MaxHeaderLines lines
HeaderLineBlocks ==
    { JoinLines(ls) : ls \in UNION { [1..n -> HeaderLines] : n \in 1..MaxHeaderLines } }

HeaderLookupNames == { <<"a">>, <<"B">> }

\* one caller that registers a header block, looks names up in it and
\* releases it before it registers the next
HeadersNext ==
    \/ \E buf \in HeaderLineBlocks :
           /\ \A i \in Slots : headers_storage[i] = NULL
           /\ ParseHttpHeadersAssign(1, buf)
    \/ ParseHttpHeadersLine(1)
    \/ ParseHttpHeadersReturn(1)
    \/ \E h \in HandleArgs, name \in HeaderLookupNames : GetHeaderScan(1, h, name)
    \/ \E h \in HandleArgs : FreeHeadersClear(1, h)
    \/ FreeHeadersFree(1)

SpecHeaders == Init /\ [][HeadersNext]_vars

-----------------------------------------------------------------------------
(* Properties of the handle registry *)

\* a set that is published or being published: allocated, not freed, and not
\* taken out of its slot by a release that has yet to free it
Bound(o) ==
    /\ IsLive(o)
    /\ heap[o].id # 0
    /\ ~\E t \in Threads : th[t].pc = "rel_free" /\ th[t].headers = o

FreeListIndices == 0..(free_header_count - 1)

C2_StaleLookupNone ==
    (last.kind = "lookup" /\ ~last.wasIssued)
        => (last.retStr = NULLSTR /\ ~last.deref)

\* C3: the free list is non-empty exactly when some released handle has not
\* been reissued; register then takes the most recently released one and leaves
\* next_header_id alone; and a register call whose set is intact returns the
\* handle it took.
C3_LifoReuse ==
    /\ free_header_count = Len(released)
    /\ ((last.kind = "assign" \/ (last.kind = "register" /\ last.outcome = "full"))
          /\ last.expectTop # 0)
          => /\ last.kind = "assign"
             /\ last.h = last.expectTop
             /\ last.idAfter = last.idBefore
    /\ (last.kind = "register" /\ last.outcome = "ok" /\ ~last.deref)
          => last.retId = last.h

\* a register call took the newer of two released handles
C3_Witness ==
    /\ last.kind = "assign"
    /\ last.expectTop # 0
    /\ last.h = last.expectTop
    /\ Len(released) = 1
    /\ released[1] # last.h

\* C4: register reports "no available slots" only when MAX_HEADERS entries are
\* live (no allocation failure having left a slot behind).
C4_CapacityIsMaxHeaders ==
    (last.kind = "register" /\ last.outcome = "full" /\ last.occSeen = last.liveSeen)
        => last.liveSeen >= MAX_HEADERS

\* C5: a thread that is not inside a registry call does not hold headers_mutex.
C5_MutexReleasedOnReturn ==
    \A t \in Threads : th[t].pc = "idle" => headers_mutex # t

\* C6: no step frees a HeaderSet that another thread's register call is still
\* populating.
C6_NoFreeWhileInUse ==
    [][\A o \in Objs :
          (heap[o].state = "live" /\ heap'[o].state = "freed")
              => \A t \in Threads :
                    ~(th[t].pc = "reg_parse" /\ th[t].headers = o
                      /\ th'[t].pc = "reg_parse")]_vars

\* C7: a lookup that scans a live set returns what the lookup returns on the
\* whole set parsed from the registration's header block.
C7_LookupSeesWholeSet ==
    (last.kind = "lookup" /\ last.outcome = "ok" /\ ~last.deref)
        => last.retStr = FindHeader(ParseAll(heap[last.obj].src, <<>>, 1), last.name)

-----------------------------------------------------------------------------
(* Properties of the JSON decoder *)

\* C8: a parse of a valid document returns the document's value whatever the
\* other threads are doing, the first calls included: no call returns NULL or
\* fails because it saw the class/method cache half filled.
C8_ParseResultIndependentOfOtherThreads ==
    \A t \in Threads :
        jt[t].result # "none" => jt[t].result = JsonExpected(jt[t].doc)

\* a non-whitespace byte at or after the cursor
HasTrailingData(buf, cur) == \E i \in cur..Len(buf) : ~IsJsonWs(buf[i])

\* the only failure signal nativeParseJson has is the NULL it returns
JsonFailed(out) == out.v = JNull

\* C9: when a non-whitespace byte remains after the top-level value,
\* parseJson fails.
C9_TrailingDataFails ==
    (json.pc = "returned" /\ HasTrailingData(json.input, json.out.cur))
        => JsonFailed(json.out)

\* C10: when an array element, an object key or a member value fails to
\* parse, parseJson fails: no array or object comes back.
C10_FailFastContainers ==
    (json.pc = "returned" /\ json.out.sw) => JsonFailed(json.out)

\* the body pairs every high surrogate with the low surrogate right behind it
\* and has no other low surrogate
RECURSIVE WellPaired(_)
WellPaired(fs) ==
    IF fs = <<>> THEN TRUE
    ELSE IF Head(fs) = HighEscape
    THEN Len(fs) >= 2 /\ fs[2] = LowEscape /\ WellPaired(Tail(Tail(fs)))
    ELSE IF Head(fs) = LowEscape THEN FALSE
    ELSE WellPaired(Tail(fs))

\* the UTF-8 bytes a well paired body stands for: U+10000 is F0 90 80 80
RECURSIVE PairedBytes(_)
PairedBytes(fs) ==
    IF fs = <<>> THEN <<>>
    ELSE IF Head(fs) = HighEscape
    THEN <<240, 144, 128, 128>> \o PairedBytes(Tail(Tail(fs)))
    ELSE <<97>> \o PairedBytes(Tail(fs))

\* C11: a string whose surrogate escapes come in high-low pairs parses, each
\* pair becoming the 4 UTF-8 bytes of its code point with the bytes around it
\* in place and the cursor just behind the closing quote; a string with a lone
\* high or a lone low surrogate fails.
C11_SurrogatePairsDecoded ==
    \A fs \in StringBodies :
        (json.pc = "returned" /\ json.input = QuotedString(fs))
            => IF WellPaired(fs)
               THEN /\ json.out.ok
                    /\ json.out.v = [k |-> "String", s |-> PairedBytes(fs)]
                    /\ json.out.cur = Len(json.input) + 1
               ELSE ~json.out.ok

\* what Java receives from nativeParseJson: the jobject, no exception pending
JsonOutcome(out) == out.v

\* C12: the outcome of a parse that failed differs from the outcome of parsing
\* the document null.
C12_ErrorDistinctFromNull ==
    (json.pc = "returned" /\ ~json.out.ok)
        => JsonOutcome(json.out)
              # JsonOutcome(nativeParseJson(Bytes(<<"n", "u", "l", "l">>)))

\* the literal the number parser consumed holds a '.', an 'e' or an 'E'
HasFloatSyntax(buf, from, to) ==
    \E i \in from..to : buf[i] = Ch(".") \/ buf[i] = Ch("e") \/ buf[i] = Ch("E")

\* C13: a number literal the parser accepts is a Double exactly when it holds
\* a '.' or an exponent, and a Long otherwise.
C13_NumberClassSyntactic ==
    (json.pc = "returned" /\ json.out.ok)
        => /\ json.out.v.k \in {"Long", "Double"}
           /\ (json.out.v.k = "Double")
                 <=> HasFloatSyntax(json.input, 1, json.out.cur - 1)

\* an exponent without a '.' gave a Double
C13_Witness ==
    /\ json.pc = "returned"
    /\ json.out.ok
    /\ json.out.v.k = "Double"
    /\ json.out.cur = Len(json.input) + 1
    /\ \A i \in 1..Len(json.input) : json.input[i] # Ch(".")

-----------------------------------------------------------------------------
(* Properties of the form decoder *)

\* the position of the first byte c of s, 0 if there is none
RECURSIVE FirstIndexOf(_, _, _)
FirstIndexOf(s, c, i) ==
    IF i > Len(s) THEN 0 ELSE IF s[i] = c THEN i ELSE FirstIndexOf(s, c, i + 1)

\* the '&'-separated segments of a body, in order
RECURSIVE Segments(_)
Segments(s) ==
    IF FirstIndexOf(s, Ch("&"), 1) = 0 THEN <<s>>
    ELSE <<SubSeq(s, 1, FirstIndexOf(s, Ch("&"), 1) - 1)>>
            \o Segments(SubSeq(s, FirstIndexOf(s, Ch("&"), 1) + 1, Len(s)))

\* the pair a segment stands for: split at its first '=', both sides decoded
SegmentPair(seg) ==
    IF FirstIndexOf(seg, Ch("="), 1) = 0
    THEN <<urlDecode(seg, Len(seg)), <<>>>>
    ELSE <<urlDecode(SubSeq(seg, 1, FirstIndexOf(seg, Ch("="), 1) - 1),
                     FirstIndexOf(seg, Ch("="), 1) - 1),
           urlDecode(SubSeq(seg, FirstIndexOf(seg, Ch("="), 1) + 1, Len(seg)),
                     Len(seg) - FirstIndexOf(seg, Ch("="), 1))>>

ExpectedPairs(s) == [i \in 1..Len(Segments(s)) |-> SegmentPair(Segments(s)[i])]

\* the 32-bit length field at buf[pos..pos+3]
ReadInt32(buf, pos) ==
    buf[pos] + 256 * buf[pos + 1] + 65536 * buf[pos + 2] + 16777216 * buf[pos + 3]

\* a walk of the result buffer reading keyLen, key, valueLen, value
RECURSIVE WalkKeyThenValue(_, _, _)
WalkKeyThenValue(buf, pos, acc) ==
    IF pos > Len(buf) THEN [pairs |-> acc, ok |-> TRUE]
    ELSE IF pos + 3 > Len(buf) THEN [pairs |-> acc, ok |-> FALSE]
    ELSE LET kl == ReadInt32(buf, pos)
             vp == pos + 4 + kl
         IN  IF vp + 3 > Len(buf) THEN [pairs |-> acc, ok |-> FALSE]
             ELSE LET vl == ReadInt32(buf, vp)
                  IN  IF vp + 4 + vl - 1 > Len(buf) THEN [pairs |-> acc, ok |-> FALSE]
                      ELSE WalkKeyThenValue(buf, vp + 4 + vl,
                               Append(acc, <<SubSeq(buf, pos + 4, vp - 1),
                                             SubSeq(buf, vp + 4, vp + 4 + vl - 1)>>))

\* a walk of the result buffer reading keyLen, valueLen, key, value
RECURSIVE WalkLengthsFirst(_, _, _)
WalkLengthsFirst(buf, pos, acc) ==
    IF pos > Len(buf) THEN [pairs |-> acc, ok |-> TRUE]
    ELSE IF pos + 7 > Len(buf) THEN [pairs |-> acc, ok |-> FALSE]
    ELSE LET kl == ReadInt32(buf, pos)
             vl == ReadInt32(buf, pos + 4)
         IN  IF pos + 8 + kl + vl - 1 > Len(buf) THEN [pairs |-> acc, ok |-> FALSE]
             ELSE WalkLengthsFirst(buf, pos + 8 + kl + vl,
                      Append(acc, <<SubSeq(buf, pos + 8, pos + 8 + kl - 1),
                                    SubSeq(buf, pos + 8 + kl, pos + 8 + kl + vl - 1)>>))

\* C14: the pairs in the buffer parseFormData returns are the pairs of the
\* body's '&'-separated segments, one per segment and in order, a segment
\* without '=' giving its decoded text with an empty value.
C14_OnePairPerSegment ==
    (body.pc = "returned" /\ body.fn = "parseFormData" /\ body.out.ret = "buffer")
        => WalkKeyThenValue(body.out.buf, 1, <<>>)
              = [pairs |-> ExpectedPairs(body.input), ok |-> TRUE]

\* every segment of the body has a '='
AllSegmentsKeyed(s) ==
    \A i \in 1..Len(Segments(s)) : FirstIndexOf(Segments(s)[i], Ch("="), 1) # 0

\* C15: the buffer parseFormData returns is a run of records keyLen, valueLen,
\* key bytes, value bytes with the decoded lengths; walking it that way ends
\* exactly at its end and gives every pair.
C15_RecordLayout ==
    (body.pc = "returned" /\ body.fn = "parseFormData" /\ body.out.ret = "buffer"
        /\ AllSegmentsKeyed(body.input))
        => WalkLengthsFirst(body.out.buf, 1, <<>>)
              = [pairs |-> ExpectedPairs(body.input), ok |-> TRUE]

HexDigits == (48..57) \cup (65..70) \cup (97..102)

HexDigitValue(c) == IF c <= 57 THEN c - 48 ELSE IF c <= 70 THEN c - 55 ELSE c - 87

\* the positions of a span where a %XY escape with two hex digits starts
EscapeStarts(s) ==
    { i \in 1..Len(s) : /\ s[i] = 37
                        /\ i + 2 <= Len(s)
                        /\ s[i + 1] \in HexDigits
                        /\ s[i + 2] \in HexDigits }

\* the positions that give one output byte each: all but the hex digits of
\* an escape
RECURSIVE KeptPositions(_, _)
KeptPositions(s, i) ==
    IF i > Len(s) THEN <<>>
    ELSE IF (i - 1) \in EscapeStarts(s) \/ (i - 2) \in EscapeStarts(s)
    THEN KeptPositions(s, i + 1)
    ELSE <<i>> \o KeptPositions(s, i + 1)

DecodedByteAt(s, i) ==
    IF i \in EscapeStarts(s) THEN 16 * HexDigitValue(s[i + 1]) + HexDigitValue(s[i + 2])
    ELSE IF s[i] = 43 THEN 32
    ELSE s[i]

\* C16 as amended: %XY with two hex digits inside the span gives the byte
\* 16X+Y, '+' gives a space, every other byte gives itself; a '%' without two
\* hex digits behind it inside the span gives itself and the bytes behind it
\* are decoded in their own right.
C16_PercentDecoding ==
    (body.pc = "returned" /\ body.fn = "urlDecode")
        => body.out.buf
              = [k \in 1..Len(KeptPositions(body.input, 1))
                    |-> DecodedByteAt(body.input, KeptPositions(body.input, 1)[k])]

\* a '%' that starts no escape and a '%' that starts one, in one span
C16_Witness ==
    /\ body.pc = "returned"
    /\ body.fn = "urlDecode"
    /\ EscapeStarts(body.input) # {}
    /\ \E i \in 1..Len(body.input) :
          body.input[i] = 37 /\ i \notin EscapeStarts(body.input)

\* the claim read to the letter: a '%' that starts no escape and the two bytes
\* behind it are copied as they are
RECURSIVE LiteralDecode(_)
LiteralDecode(s) ==
    IF s = <<>> THEN <<>>
    ELSE IF 1 \in EscapeStarts(s)
    THEN <<16 * HexDigitValue(s[2]) + HexDigitValue(s[3])>> \o LiteralDecode(SubSeq(s, 4, Len(s)))
    ELSE IF s[1] = 37
    THEN SubSeq(s, 1, IF Len(s) < 3 THEN Len(s) ELSE 3) \o LiteralDecode(SubSeq(s, 4, Len(s)))
    ELSE IF s[1] = 43 THEN <<32>> \o LiteralDecode(Tail(s))
    ELSE <<s[1]>> \o LiteralDecode(Tail(s))

\* C16 as stated: a '%' not followed by two hex digits inside the span and the
\* bytes that follow it appear in the output unmodified.
C16_InvalidEscapeLiteral ==
    (body.pc = "returned" /\ body.fn = "urlDecode")
        => body.out.buf = LiteralDecode(body.input)

-----------------------------------------------------------------------------
(* Properties of the multipart decoder *)

MultipartReturned == body.pc = "returned" /\ body.fn = "parseMultipartForm"

\* the offsets from which on marker occurs in buffer
Occurrences(buffer, from, marker) ==
    { m \in from..(Len(buffer) - Len(marker)) : Span(buffer, m, Len(marker)) = marker }

\* the first of them, -1 if there is none
FirstOccurrence(buffer, from, marker) ==
    IF Occurrences(buffer, from, marker) = {} THEN -1
    ELSE CHOOSE m \in Occurrences(buffer, from, marker) :
             \A k \in Occurrences(buffer, from, marker) : m <= k

\* the offsets where the parameter key="..." starts in a header line: key="
\* at the start of a parameter, not inside a longer parameter name
ParamStarts(line, key) ==
    { i \in Occurrences(line, 0, key) : i = 0 \/ At(line, i - 1) \in {" ", ";"} }

\* the quoted text of the parameter, <<>> if the line has no such parameter
ParamValue(line, key) ==
    IF ParamStarts(line, key) = {} THEN <<>>
    ELSE LET i == CHOOSE m \in ParamStarts(line, key) :
                      \A k \in ParamStarts(line, key) : m <= k
         IN  Span(line, i + Len(key),
                  FirstOccurrence(line, i + Len(key), <<"\"">>) - (i + Len(key)))

\* C17: a recorded part whose Content-Disposition line carries name="N" has
\* name N, one whose line carries filename="F" has filename F, whatever the
\* order of the two, and is_file is set exactly when a filename is recorded.
C17_NameAndFilename ==
    (MultipartReturned /\ body.out.ret = "buffer")
        => \A k \in 1..Len(body.out.parts) :
              LET p == body.out.parts[k]
              IN  p.disposition # <<>>
                    => /\ ParamValue(p.disposition, NameKey) # <<>>
                            => p.name = ParamValue(p.disposition, NameKey)
                       /\ ParamValue(p.disposition, FilenameKey) # <<>>
                            => p.filename = ParamValue(p.disposition, FilenameKey)
                       /\ (p.isFile = 1) <=> (p.filename # <<>>)

\* a byte that ends a boundary token: a line terminator or the start of "--"
TokenTerminator(buffer, k) == IsLineEnd(At(buffer, k)) \/ DashDashAt(buffer, k)

\* the non-empty tokens that follow a "--" and run up to a terminator within
\* the lookahead
BoundaryTokens(buffer) ==
    { Span(buffer, t[1] + 2, t[2] - (t[1] + 2)) :
        t \in { u \in (0..Len(buffer)) \X (0..Len(buffer)) :
                   /\ DashDashAt(buffer, u[1])
                   /\ u[2] > u[1] + 2
                   /\ u[2] < Len(buffer)
                   /\ u[2] - (u[1] + 2) <= BoundaryLookahead
                   /\ TokenTerminator(buffer, u[2])
                   /\ \A k \in (u[1] + 2)..(u[2] - 1) : ~TokenTerminator(buffer, k) } }

\* C18: the boundary found is a non-empty token that follows a "--" and ends
\* at a line terminator or another "--"; no boundary is found only when the
\* body has no such token.
C18_BoundaryDiscovery ==
    MultipartReturned
        => IF BoundaryTokens(body.input) = {}
           THEN body.out.boundary = <<>>
           ELSE body.out.boundary \in BoundaryTokens(body.input)

\* the first offset at or after from that holds no line terminator
AfterLineEnds(buffer, from) ==
    CHOOSE k \in from..Len(buffer) :
        /\ k = Len(buffer) \/ ~IsLineEnd(At(buffer, k))
        /\ \A j \in from..(k - 1) : IsLineEnd(At(buffer, j))

\* the end of a header block that starts at from: behind the first empty
\* line, or where no further CRLF-terminated line starts
RECURSIVE HeaderBlockEnd(_, _)
HeaderBlockEnd(buffer, from) ==
    IF FirstOccurrence(buffer, from, CRLF) = -1 THEN from
    ELSE IF FirstOccurrence(buffer, from, CRLF) = from THEN from + 2
    ELSE HeaderBlockEnd(buffer, FirstOccurrence(buffer, from, CRLF) + 2)

\* where the content that starts at start ends: at the next delimiter less
\* the CRLF in front of it, at the end of the body if there is none
ContentEnd(buffer, start, marker) ==
    IF FirstOccurrence(buffer, start, marker) = -1 THEN Len(buffer)
    ELSE IF /\ FirstOccurrence(buffer, start, marker) >= 2
            /\ Span(buffer, FirstOccurrence(buffer, start, marker) - 2, 2) = CRLF
    THEN FirstOccurrence(buffer, start, marker) - 2
    ELSE FirstOccurrence(buffer, start, marker)

\* C19: the data of a recorded part starts right behind the part's header
\* block and ends at the next "--BOUNDARY" less one CRLF in front of it, or at
\* the end of the body; it is not empty and lies inside the body.
C19_DataSlice ==
    (MultipartReturned /\ body.out.ret = "buffer")
        => \A k \in 1..Len(body.out.parts) :
              LET p == body.out.parts[k]
                  marker == <<"-", "-">> \o body.out.boundary
              IN  /\ 0 <= p.data
                  /\ p.data < p.data + p.dataLength
                  /\ p.data + p.dataLength <= Len(body.input)
                  /\ p.data = HeaderBlockEnd(body.input,
                                  AfterLineEnds(body.input, p.boundaryPos + Len(marker)))
                  /\ p.data + p.dataLength = ContentEnd(body.input, p.data, marker)

\* two parts recorded: the data of the first ends in front of the CRLF of the
\* next delimiter line, the data of the second at the end of the body
C19_Witness ==
    /\ MultipartReturned
    /\ body.out.ret = "buffer"
    /\ Len(body.out.parts) = 2
    /\ body.out.parts[1].data + body.out.parts[1].dataLength + 2
          = body.out.parts[2].boundaryPos
    /\ body.out.parts[2].data + body.out.parts[2].dataLength = Len(body.input)

\* what the caller gets from parseMultipartForm
MultipartOutcome(out) == [ret |-> out.ret, buf |-> out.buf]

\* C20: when a boundary was found and no part recorded, what the call returns
\* differs from what it returns when no boundary is found.
C20_NoPartsDistinct ==
    (MultipartReturned /\ body.out.boundary # <<>> /\ body.out.parts = <<>>)
        => MultipartOutcome(body.out)
              # MultipartOutcome(MultipartParts(body.input, <<>>))

\* ---- header block parser and lookup, one caller ----

RECURSIVE SplitLines(_, _, _, _)
\* the non-empty maximal runs of bytes other than CR and LF, in block order
SplitLines(buf, i, cur, acc) ==
    IF i > Len(buf)
    THEN IF cur = <<>> THEN acc ELSE Append(acc, cur)
    ELSE IF buf[i] \in {"\r", "\n"}
    THEN SplitLines(buf, i + 1, <<>>, IF cur = <<>> THEN acc ELSE Append(acc, cur))
    ELSE SplitLines(buf, i + 1, Append(cur, buf[i]), acc)

BlockLines(buf) == SplitLines(buf, 1, <<>>, <<>>)

HasColon(line) == \E k \in 1..Len(line) : line[k] = ":"

FirstColon(line) ==
    CHOOSE k \in 1..Len(line) : line[k] = ":" /\ \A j \in 1..(k - 1) : line[j] # ":"

RECURSIVE TrimBoth(_)
TrimBoth(s) ==
    IF s = <<>> THEN s
    ELSE IF IsSpaceTab(s[1]) THEN TrimBoth(Tail(s))
    ELSE IF IsSpaceTab(s[Len(s)]) THEN TrimBoth(SubSeq(s, 1, Len(s) - 1))
    ELSE s

LineName(line) == TrimBoth(SubSeq(line, 1, FirstColon(line) - 1))

LineValue(line) == TrimBoth(SubSeq(line, FirstColon(line) + 1, Len(line)))

\* C21: every value stored in a header set is the text after the first colon
\* of one of the block's lines with the spaces and tabs on both sides
\* removed, so no stored value begins or ends with a space or a tab.
C21_ValuesTrimmedBothSides ==
    \A o \in Objs :
        heap[o].state = "live" =>
            \A k \in DOMAIN heap[o].first :
                LET v == heap[o].first[k].value
                IN  /\ v = TrimBoth(v)
                    /\ \E line \in { BlockLines(heap[o].src)[j] :
                                       j \in DOMAIN BlockLines(heap[o].src) } :
                           HasColon(line) /\ v = LineValue(line)

RECURSIVE TrimLeading(_)
TrimLeading(s) ==
    IF s # <<>> /\ IsSpaceTab(s[1]) THEN TrimLeading(Tail(s)) ELSE s

\* the block's lines that have a colon, in block order
ColonLines(buf) == SelectSeq(BlockLines(buf), HasColon)

\* every value stored in a header set is the text after the first colon of its
\* line up to the line end with the spaces and tabs in front removed, the
\* entries standing in reverse block order; no stored value begins with a
\* space or a tab
C21_ValuesLeadingTrimmed ==
    \A o \in Objs :
        heap[o].state = "live" =>
            /\ Len(heap[o].first) <= Len(ColonLines(heap[o].src))
            /\ \A k \in DOMAIN heap[o].first :
                   LET v == heap[o].first[k].value
                       line == ColonLines(heap[o].src)[Len(heap[o].first) - k + 1]
                   IN  /\ v = TrimLeading(SubSeq(line, FirstColon(line) + 1, Len(line)))
                       /\ v # <<>> => ~IsSpaceTab(v[1])

\* a set whose block was read to its end holds a value that had spaces or
\* tabs on both sides in the block and ends with one
C21_Witness ==
    \E o \in Objs :
        /\ heap[o].state = "live"
        /\ Len(heap[o].first) = Len(ColonLines(heap[o].src))
        /\ \E k \in DOMAIN heap[o].first :
               LET v == heap[o].first[k].value
                   line == ColonLines(heap[o].src)[Len(heap[o].first) - k + 1]
               IN  /\ v # <<>>
                   /\ IsSpaceTab(v[Len(v)])
                   /\ IsSpaceTab(line[FirstColon(line) + 1])

MatchingLines(buf, name) ==
    { j \in DOMAIN BlockLines(buf) :
        /\ HasColon(BlockLines(buf)[j])
        /\ StrCaseEq(LineName(BlockLines(buf)[j]), name) }

FirstMatchingLine(buf, name) ==
    BlockLines(buf)[CHOOSE j \in MatchingLines(buf, name) :
                        \A i \in MatchingLines(buf, name) : j <= i]

\* C22: a lookup on a live handle returns the value of the first line of the
\* block whose name equals the requested name without regard to case, and
\* none when no line matches (values compared up to surrounding spaces and
\* tabs).
C22_LookupFirstMatchingLine ==
    (last.kind = "lookup" /\ last.outcome = "ok" /\ IsLive(last.obj)) =>
        IF MatchingLines(heap[last.obj].src, last.name) = {}
        THEN last.retStr = NULLSTR
        ELSE TrimBoth(last.retStr) =
                 LineValue(FirstMatchingLine(heap[last.obj].src, last.name))

\* lookups of a name carried by one line only, and of a name no line carries
C22_SingleMatchAgrees ==
    (last.kind = "lookup" /\ last.outcome = "ok" /\ IsLive(last.obj)
       /\ Cardinality(MatchingLines(heap[last.obj].src, last.name)) <= 1) =>
        IF MatchingLines(heap[last.obj].src, last.name) = {}
        THEN last.retStr = NULLSTR
        ELSE TrimBoth(last.retStr) =
                 LineValue(FirstMatchingLine(heap[last.obj].src, last.name))

\* ---- multipart decoder: the part loop ----

\* C23: the part loop ends on every input: each iteration finds its boundary
\* inside the input at an offset strictly greater than the iteration before
\* it, whether the part was recorded or skipped, so there are at most as many
\* iterations as input bytes; never more than MAX_PARTS parts are recorded,
\* and reaching that number ends the loop with the recorded parts returned.
C23_PartLoopTerminates ==
    MultipartReturned =>
        /\ \A i \in DOMAIN body.out.seen :
               /\ body.out.seen[i] \in 0..(Len(body.input) - 1)
               /\ i > 1 => body.out.seen[i - 1] < body.out.seen[i]
        /\ Len(body.out.seen) <= Len(body.input)
        /\ Len(body.out.parts) <= MAX_PARTS
        /\ Len(body.out.parts) = MAX_PARTS => body.out.ret = "buffer"

\* the cap was reached behind a skipped part with a further part unread
C23_Witness ==
    /\ MultipartReturned
    /\ Len(body.out.parts) = MAX_PARTS
    /\ body.out.ret = "buffer"
    /\ Len(body.out.seen) > Len(body.out.parts)
    /\ \E i \in Occurrences(body.input, body.out.seen[Len(body.out.seen)] + 1,
                           BoundaryStart(body.out.boundary)) :
           i \notin Occurrences(body.input, 0, BoundaryEnd(body.out.boundary))

\* ---- handle registry: free list and counter ----

\* the indices on the free list
FreeSet == { free_header_slots[k] : k \in FreeListIndices }

\* the sequential counter has handed index i out
HandedOut(i) == i >= 1 /\ i < next_header_id

\* C24: in every reachable state the free list holds free_header_count
\* pairwise distinct indices of 1..MAX_HEADERS-1, its count stays below
\* MAX_HEADERS, an index is on it exactly when the index was handed out before
\* and its slot is empty, and so with an empty free list and the counter at
\* capacity every slot of 1..MAX_HEADERS-1 is occupied.
C24_FreeListExact ==
    /\ free_header_count \in 0..(MAX_HEADERS - 1)
    /\ Cardinality(FreeSet) = free_header_count
    /\ FreeSet \subseteq 1..(MAX_HEADERS - 1)
    /\ \A i \in 1..(MAX_HEADERS - 1) :
           i \in FreeSet <=> (HandedOut(i) /\ headers_storage[i] = NULL)
    /\ (free_header_count = 0 /\ next_header_id >= MAX_HEADERS) =>
           \A i \in 1..(MAX_HEADERS - 1) : headers_storage[i] # NULL

\* a register call found the free list empty, the counter at capacity and
\* every slot occupied, and returned 0
C24_Witness ==
    /\ last.kind = "register"
    /\ last.outcome = "full"
    /\ free_header_count = 0
    /\ next_header_id > MAX_HEADERS
    /\ \A i \in 1..(MAX_HEADERS - 1) : headers_storage[i] # NULL

\* C25: a register call that returns 0 leaves no trace in the slot table:
\* after the call no slot refers to the HeaderSet the call allocated and freed,
\* so the slot it had assigned holds no freed set and is open to later calls.
C25_FailedRegisterLeavesNoSlot ==
    (last.kind = "register" /\ last.outcome \in {"full", "linenomem"}) =>
        \A i \in Slots : headers_storage[i] # last.obj

\* C26: every handle returned by register and every slot written lies in
\* 1..MAX_HEADERS-1, slot 0 is never occupied, and next_header_id stays in
\* the range 1..MAX_HEADERS however often register is called.
C26_IdsAndCounterInRange ==
    /\ issued \subseteq 1..(MAX_HEADERS - 1)
    /\ headers_storage[0] = NULL
    /\ (last.kind = "register" /\ last.outcome = "ok" /\ ~last.deref) =>
           last.retId \in 1..(MAX_HEADERS - 1)
    /\ next_header_id \in 1..MAX_HEADERS

\* the handles and the written slots alone
C26_IdsInRange ==
    /\ issued \subseteq 1..(MAX_HEADERS - 1)
    /\ headers_storage[0] = NULL
    /\ (last.kind = "register" /\ last.outcome = "ok" /\ ~last.deref) =>
           last.retId \in 1..(MAX_HEADERS - 1)

\* ---- form decoder: size of the result buffer ----

\* C27: parseFormData never writes beyond the FormResultFactor * length bytes
\* it allocated: for every body of one byte or more the length fields and the
\* decoded key and value bytes it writes fit in them.
C27_ResultFitsAllocation ==
    (body.pc = "returned" /\ body.fn = "parseFormData" /\ Len(body.input) >= 1) =>
        /\ body.out.ret # "heap_overflow"
        /\ Len(body.out.buf) <= FormResultFactor * Len(body.input)

\* ---- multipart decoder: fields of a part behind a skipped part ----

\* the bytes from a recorded part's boundary to the start of its data
OwnHeaderBlock(buffer, p) == Span(buffer, p.boundaryPos, p.data - p.boundaryPos)

\* C28: the name, filename, content type and is_file of a recorded part come
\* from that part's own header block only: a part whose block has no
\* Content-Disposition line has no name and no filename and is not a file,
\* and a part whose block has no Content-Type line has no content type,
\* whatever the headers of a part skipped before it.
C28_FieldsFromOwnHeaders ==
    (MultipartReturned /\ body.out.ret = "buffer")
        => \A k \in 1..Len(body.out.parts) :
              LET p == body.out.parts[k]
              IN  /\ p.disposition = <<>>
                        => p.name = <<>> /\ p.filename = <<>> /\ p.isFile = 0
                  /\ Occurrences(OwnHeaderBlock(body.input, p), 0, ContentType) = {}
                        => p.contentType = <<>>

\* the same for the parts recorded with no skipped part since the part
\* recorded before them
C28_HoldsWithoutSkippedPart ==
    (MultipartReturned /\ body.out.ret = "buffer")
        => \A k \in 1..Len(body.out.parts) :
              LET p == body.out.parts[k]
                  prev == IF k = 1 THEN -1 ELSE body.out.parts[k - 1].boundaryPos
              IN  (\A i \in DOMAIN body.out.seen :
                       ~(prev < body.out.seen[i] /\ body.out.seen[i] < p.boundaryPos))
                    => /\ p.disposition = <<>>
                            => p.name = <<>> /\ p.filename = <<>> /\ p.isFile = 0
                       /\ Occurrences(OwnHeaderBlock(body.input, p), 0, ContentType) = {}
                            => p.contentType = <<>>

\* ---- JSON strings: the two passes of parseJsonString ----

\* bufSize of the decode buffer: the raw span the first pass measured plus one
DecodeBufSize(buf, start) == (ScanString(buf, start, FALSE).scan - start) + 1

\* C29: for a string with escapes whose closing quote the first pass found,
\* the decoding pass, unless it returns an error at an escape, stops at that
\* same closing quote, and the bytes it writes, the final NUL included, never
\* exceed the size of the decode buffer.
C29_DecodePassStopsAtScanEnd ==
    (/\ json.pc = "returned"
     /\ Len(json.input) >= 2
     /\ json.input[1] = Ch("\"")
     /\ ~ScanString(json.input, 2, FALSE).bad
     /\ ScanString(json.input, 2, FALSE).scan <= Len(json.input)
     /\ ScanString(json.input, 2, FALSE).hasEscapes)
        => /\ ~DecodeString(json.input, 2, <<>>).bad
                => /\ DecodeString(json.input, 2, <<>>).cur
                          = ScanString(json.input, 2, FALSE).scan
                   /\ Len(DecodeString(json.input, 2, <<>>).out) + 1
                          <= DecodeBufSize(json.input, 2)
           /\ Len(DecodeString(json.input, 2, <<>>).out)
                  <= DecodeBufSize(json.input, 2)

\* the same for the strings without a surrogate pair
C29_HoldsWithoutPairs ==
    \A fs \in StringBodies :
        (json.pc = "returned" /\ json.input = QuotedString(fs)
           /\ \A i \in 1..(Len(fs) - 1) : ~(fs[i] = HighEscape /\ fs[i + 1] = LowEscape))
            => C29_DecodePassStopsAtScanEnd

\* ---- JSON parser: reads of the input ----

\* C30: the parser reads no byte at or beyond end: every dereference of the
\* cursor happens while the cursor is below end, also behind the whitespace
\* that follows a comma inside an object.
C30_NoReadAtOrPastEnd ==
    json.pc = "returned" => ~json.out.oob

\* the same for the inputs that do not end in whitespace behind an object's
\* comma
C30_HoldsWithoutTrailingCommaSpace ==
    (json.pc = "returned" /\ json.input \notin CommaEndedObjects) => ~json.out.oob

====
